---- MODULE Spec2Model ----
(***************************************************************************)
(* A model of the salvus spectral-element engine: the second-order Newmark *)
(* integrator (Order2Newmark), the time-loop driver (solve_vs_exact), the  *)
(* Dirichlet enforcement of the tensor elements, the source / receiver     *)
(* attachment of the hexahedral and quadrilateral elements, and the        *)
(* per-order reference tables.                                             *)
(*                                                                         *)
(* PetscScalar values are modelled as exact rationals <<n, d>>, d > 0, in  *)
(* lowest terms, so that sums are associative; rounding is not modelled.   *)
(***************************************************************************)
EXTENDS Integers, Sequences, FiniteSets, TLC

(***************************************************************************)
(* Bounds of the model.                                                    *)
(***************************************************************************)
NElem == 2          \* elements of the local partition (a chain of cells)
MaxSteps == 2       \* time steps taken by a driver before the model stops

(***************************************************************************)
(* Exact arithmetic standing for PetscScalar / PetscReal.                  *)
(***************************************************************************)
Abs(x) == IF x < 0 THEN -x ELSE x

RECURSIVE GCD(_, _)
GCD(a, b) == IF b = 0 THEN a ELSE GCD(b, a % b)

Rat(n, d) ==
  LET s == IF d < 0 THEN -1 ELSE 1
      g == GCD(Abs(n), Abs(d))
  IN  <<(s * n) \div g, (s * d) \div g>>

RZero == <<0, 1>>
ROne == <<1, 1>>
RHalf == <<1, 2>>
RInt(i) == <<i, 1>>
RAdd(x, y) == Rat(x[1] * y[2] + y[1] * x[2], x[2] * y[2])
RMul(x, y) == Rat(x[1] * y[1], x[2] * y[2])
RPos(x) == x[1] > 0
RLess(x, y) == x[1] * y[2] < y[1] * x[2]

(***************************************************************************)
(* Mesh: a chain of NElem cells; cell e has the closure <<e, e + 1>>, so   *)
(* neighbouring cells share one degree of freedom.                         *)
(***************************************************************************)
Cells == 0 .. (NElem - 1)
Dofs == 0 .. NElem
ClosureSize == 2
Closure(e) == <<e, e + 1>>

ZeroVec == [d \in Dofs |-> RZero]

\* DMPlexVecSetClosure(..., vec, point, values, INSERT_VALUES)
VecSetClosureInsert(vec, point, values) ==
  [d \in Dofs |->
     LET ks == {k \in 1 .. ClosureSize : Closure(point)[k] = d}
     IN  IF ks = {} THEN vec[d]
         ELSE RInt(values[CHOOSE k \in ks : TRUE])]

\* DMPlexVecSetClosure(..., vec, point, values, ADD_VALUES)
VecSetClosureAdd(vec, point, values) ==
  [d \in Dofs |->
     LET ks == {k \in 1 .. ClosureSize : Closure(point)[k] = d}
     IN  IF ks = {} THEN vec[d]
         ELSE RAdd(vec[d], RInt(values[CHOOSE k \in ks : TRUE]))]

\* DMLocalToGlobalBegin / End with ADD_VALUES on one partition
LocalToGlobalAdd(loc, glb) == [d \in Dofs |-> RAdd(glb[d], loc[d])]

\* VecReciprocal: 1 / x on every non-zero entry, zero entries are left alone
VecReciprocal(vec) ==
  [d \in Dofs |-> IF vec[d][1] = 0 THEN vec[d] ELSE Rat(vec[d][2], vec[d][1])]

\* VecPointwiseMult(w, x, y): w = x * y
VecPointwiseMult(x, y) == [d \in Dofs |-> RMul(x[d], y[d])]

\* VecAXPBYPCZ(z, alpha, beta, gamma, x, y): z = alpha x + beta y + gamma z
VecAXPBYPCZ(z, alpha, beta, gamma, x, y) ==
  [d \in Dofs |->
     RAdd(RAdd(RMul(alpha, x[d]), RMul(beta, y[d])), RMul(gamma, z[d]))]

(***************************************************************************)
(* State.                                                                  *)
(***************************************************************************)
VARIABLES
  elements,    \* ElemVec: the elements in visiting order, [num, mass]
  physics,     \* mesh->AllFields(): the set of physics of the mesh
  fields,      \* FieldDict: name -> [mLoc, mGlb]
  time,        \* simulation time of the Newmark driver
  mDt,         \* Order2Newmark::mDt
  timeIdx,     \* time_idx of the Newmark driver
  nmPc,        \* position of the Newmark driver
  drvPc,       \* position of solve_vs_exact
  drvOpts,     \* Options: TimeStep, Duration, SaveMovie, SaveFrameEvery
  drvElms,     \* the elements of solve_vs_exact: [pull, push, bnd]
  it,          \* int it
  drvTime,     \* double time
  drvIdx,      \* index of the loop the driver is in
  maxError,    \* double max_error
  callLog,     \* the calls made on the mesh and the elements
  dirPc,       \* position of the run that sets and enforces the boundaries
  dirIdx,      \* the element the run is at
  bndFaces,    \* mesh->BoundaryElementFaces(): name -> element -> faces
  dirNames,    \* options.DirichletBoundaries()
  elmBnd,      \* per element: [mBndElm, mBnd]
  fieldA,      \* the field "a" of the mesh, per degree of freedom
  points,      \* receivers and sources: [loc, ref, held] per identifier
  elmLists,    \* per element: [kind, mRec, mSrc]
  lastCall,    \* the last attach call and what it returned
  nCalls,      \* number of attach calls made
  refOrder,    \* the polynomial order handed to the element code
  refCall,     \* the entry point called with it and how the call ended
  elm,         \* the element under construction or in use
  elmOp,       \* the last kernel called on it: its input and what it returned
  optArgs,     \* the command line handed to Options::setOptions
  optState,    \* the Options object and how setOptions ended
  logger,      \* GLOBAL_LOGGER_STATE and the state of the log file
  logOut,      \* what the last Logger destroyed wrote, and whether it aborted
  iniPc,       \* position of the run that sets the elements up and then steps them
  iniElms,     \* the elements of that run: number, centre, parameters, calls made
  optDb,       \* the PETSc option database setOptions reads
  optObj       \* the members of one Options object, over its calls of setOptions

nmVars == <<elements, physics, fields, time, mDt, timeIdx, nmPc>>
drvVars == <<drvPc, drvOpts, drvElms, it, drvTime, drvIdx, maxError, callLog>>
dirVars == <<dirPc, dirIdx, bndFaces, dirNames, elmBnd, fieldA>>
atVars == <<points, elmLists, lastCall, nCalls>>
refVars == <<refOrder, refCall>>
elVars == <<elm, elmOp>>
optVars == <<optArgs, optState>>

logVars == <<logger, logOut>>

iniVars == <<iniPc, iniElms>>

objVars == <<optDb, optObj>>

vars == <<nmVars, drvVars, dirVars, atVars, refVars, elVars, optVars, logVars, iniVars, objVars>>

\* what a sub-model leaves alone
nmOthers == <<drvVars, dirVars, atVars, refVars, elVars, optVars, logVars, iniVars, objVars>>
drvOthers == <<nmVars, dirVars, atVars, refVars, elVars, optVars, logVars, iniVars, objVars>>
dirOthers == <<nmVars, drvVars, atVars, refVars, elVars, optVars, logVars, iniVars, objVars>>
atOthers == <<nmVars, drvVars, dirVars, refVars, elVars, optVars, logVars, iniVars, objVars>>
refOthers == <<nmVars, drvVars, dirVars, atVars, elVars, optVars, logVars, iniVars, objVars>>
elOthers == <<nmVars, drvVars, dirVars, atVars, refVars, optVars, logVars, iniVars, objVars>>
optOthers == <<nmVars, drvVars, dirVars, atVars, refVars, elVars, logVars, iniVars, objVars>>
iniOthers == <<nmVars, drvVars, dirVars, atVars, refVars, elVars, optVars, logVars, objVars>>
logOthers == <<nmVars, drvVars, dirVars, atVars, refVars, elVars, optVars, iniVars, objVars>>
objOthers == <<nmVars, drvVars, dirVars, atVars, refVars, elVars, optVars, logVars, iniVars>>

\* a sub-model that is not running
NewmarkIdle ==
  /\ elements = <<>> /\ physics = {} /\ fields = <<>> /\ time = RZero
  /\ mDt = RZero /\ timeIdx = 0 /\ nmPc = "idle"
DriverIdle ==
  /\ drvPc = "idle" /\ drvOpts = <<>> /\ drvElms = <<>> /\ it = 0
  /\ drvTime = RZero /\ drvIdx = 0 /\ maxError = 0 /\ callLog = <<>>
DirichletIdle ==
  /\ dirPc = "idle" /\ dirIdx = 0 /\ bndFaces = <<>> /\ dirNames = <<>>
  /\ elmBnd = <<>> /\ fieldA = <<>>
AttachIdle ==
  /\ points = <<>> /\ elmLists = <<>> /\ lastCall = <<>> /\ nCalls = 0
OrderIdle == refOrder = 0 /\ refCall = <<>>
ElementIdle == elm = <<>> /\ elmOp = <<>>
OptionsIdle == optArgs = <<>> /\ optState = <<>>
SetupIdle == iniPc = <<>> /\ iniElms = <<>>
LoggerIdle == logger = <<>> /\ logOut = <<>>
OptionsObjectIdle == optDb = <<>> /\ optObj = <<>>

(***************************************************************************)
(* Order2Newmark.                                                          *)
(***************************************************************************)
MassVals == {1, 2}            \* element mass entries: f * detJ * w > 0
DtVals == {RHalf, ROne}       \* options->TimeStep()
AccVals == {1, 2}             \* residuals assembled by the elements

\* std::set<std::string> iterates in lexicographic order
PhysicsOrder == <<"2delastic", "3delastic", "fluid", "viscous">>
PhysicsSets ==
  {{}, {"fluid"}, {"2delastic"}, {"3delastic"}, {"2delastic", "fluid"},
   {"viscous"}}

ElementOrders ==
  {s \in [1 .. NElem -> Cells] : \A i, j \in 1 .. NElem : i # j => s[i] # s[j]}

\* Order2Newmark::physicsToFields: the field names, or the exception
RECURSIVE physicsToFieldsFrom(_, _, _)
physicsToFieldsFrom(phys, i, acc) ==
  IF i > Len(PhysicsOrder) THEN [ok |-> TRUE, names |-> acc]
  ELSE IF PhysicsOrder[i] \notin phys THEN physicsToFieldsFrom(phys, i + 1, acc)
  ELSE IF PhysicsOrder[i] = "fluid"
    THEN physicsToFieldsFrom(phys, i + 1, acc \o <<"u", "v", "a", "a_">>)
  ELSE IF PhysicsOrder[i] = "2delastic"
    THEN physicsToFieldsFrom(phys, i + 1,
           acc \o <<"ux", "vx", "ax", "ax_", "uy", "vy", "ay", "ay_">>)
  ELSE IF PhysicsOrder[i] = "3delastic"
    THEN physicsToFieldsFrom(phys, i + 1,
           acc \o <<"ux", "vx", "ax", "ax_", "uy", "vy", "ay", "ay_",
                    "uz", "vz", "az", "az_">>)
  ELSE [ok |-> FALSE, names |-> <<>>]

\* Every physics taken for a fluid, with no exception raised.
physicsToFieldsUnchecked(phys) ==
  [ok |-> TRUE, names |-> <<"u", "v", "a", "a_">>]

physicsToFields(phys) == physicsToFieldsFrom(phys, 1, <<>>)

\* new field(name, dm): a pair of zeroed vectors
NewField == [mLoc |-> ZeroVec, mGlb |-> ZeroVec]

\* std::map::insert: an existing key keeps its value
RECURSIVE InsertFields(_, _, _)
InsertFields(dict, names, i) ==
  IF i > Len(names) THEN dict
  ELSE InsertFields(dict @@ (names[i] :> NewField), names, i + 1)

\* the loop "Sum mass matrix into local partition"
RECURSIVE SumMassIntoLocal(_, _, _)
SumMassIntoLocal(elms, i, loc) ==
  IF i > Len(elms) THEN loc
  ELSE SumMassIntoLocal(elms, i + 1,
         VecSetClosureAdd(loc, elms[i].num, elms[i].mass))

AssembledMassField(elms) ==
  LET loc == SumMassIntoLocal(elms, 1, NewField.mLoc)
      glb == LocalToGlobalAdd(loc, NewField.mGlb)
  IN  [mLoc |-> VecReciprocal(loc), mGlb |-> VecReciprocal(glb)]

\* Order2Newmark::initializeGlobalDofs
InitializeGlobalDofs ==
  /\ nmPc = "new"
  /\ LET withMi == "mi" :> AssembledMassField(elements)
         names == physicsToFields(physics)
     IN  IF physics # {} /\ names.ok
         THEN /\ fields' = InsertFields(withMi, names.names, 1)
              /\ nmPc' = "ready"
         ELSE /\ fields' = fields
              /\ nmPc' = "error"
  /\ UNCHANGED <<elements, physics, time, mDt, timeIdx>>
  /\ UNCHANGED nmOthers

\* The acceleration fields the elements push into (PushElementalFields)
PushFields == {"a", "ax", "ay", "az"} \cap DOMAIN fields

PushIndex(f) ==
  CASE f = "a" -> 0 [] f = "ax" -> 1 [] f = "ay" -> 2 [] f = "az" -> 3

\* assembleIntoGlobalDof: the assembled residual of every push field
AssembleIntoGlobalDof ==
  /\ nmPc = "ready"
  /\ timeIdx < MaxSteps
  /\ \E r \in AccVals :
       fields' = [f \in DOMAIN fields |->
                    IF f \in PushFields
                    THEN [fields[f] EXCEPT
                            !.mGlb = [d \in Dofs |-> RInt(r + PushIndex(f) + d)]]
                    ELSE fields[f]]
  /\ nmPc' = "assembled"
  /\ UNCHANGED <<elements, physics, time, mDt, timeIdx>>
  /\ UNCHANGED nmOthers

\* the loop of applyInverseMassMatrix over a list of acceleration names
RECURSIVE MultiplyByInverseMass(_, _, _)
MultiplyByInverseMass(dict, names, i) ==
  IF i > Len(names) THEN dict
  ELSE IF names[i] \in DOMAIN dict
  THEN MultiplyByInverseMass(
         [dict EXCEPT ![names[i]].mGlb =
            VecPointwiseMult(dict[names[i]].mGlb, dict["mi"].mGlb)],
         names, i + 1)
  ELSE MultiplyByInverseMass(dict, names, i + 1)

\* The loop run over the unused list recognized_acl of applyInverseMassMatrix.
InverseMassAppliedRecognized(dict) ==
  MultiplyByInverseMass(dict, <<"ax", "ay", "ax", "a">>, 1)

\* The loop run over a list that also names the inverse mass itself.
InverseMassAppliedWithMi(dict) ==
  MultiplyByInverseMass(dict, <<"ax", "ay", "az", "a", "mi">>, 1)

InverseMassApplied(dict) ==
  MultiplyByInverseMass(dict, <<"ax", "ay", "az", "a">>, 1)

\* Order2Newmark::applyInverseMassMatrix
ApplyInverseMassMatrix ==
  /\ nmPc = "assembled"
  /\ "mi" \in DOMAIN fields
  /\ fields' = InverseMassApplied(fields)
  /\ nmPc' = "massApplied"
  /\ UNCHANGED <<elements, physics, time, mDt, timeIdx>>
  /\ UNCHANGED nmOthers

recognized_acl_ == <<"ax_", "ay_", "ax_", "a_">>
recognized_acl == <<"ax", "ay", "ax", "a">>
recognized_vel == <<"vx", "vy", "vx", "v">>
recognized_dsp == <<"ux", "uy", "ux", "u">>

\* the loop "Advance all recognized fields" of takeTimeStep
RECURSIVE AdvanceFields(_, _, _)
AdvanceFields(dict, dt, i) ==
  IF i > Len(recognized_acl) THEN dict
  ELSE IF recognized_acl[i] \notin DOMAIN dict THEN AdvanceFields(dict, dt, i + 1)
  ELSE
    LET acl_factor == RMul(RHalf, dt)
        dsp_factor == RMul(RHalf, RMul(dt, dt))
        acl == dict[recognized_acl[i]].mGlb
        vel == VecAXPBYPCZ(dict[recognized_vel[i]].mGlb, acl_factor, acl_factor,
                           ROne, acl, dict[recognized_acl_[i]].mGlb)
        dsp == VecAXPBYPCZ(dict[recognized_dsp[i]].mGlb, dt, dsp_factor,
                           ROne, vel, acl)
    IN  AdvanceFields(
          [dict EXCEPT ![recognized_vel[i]].mGlb = vel,
                       ![recognized_dsp[i]].mGlb = dsp,
                       ![recognized_acl_[i]].mGlb = acl],
          dt, i + 1)

\* Order2Newmark::takeTimeStep
TakeTimeStep ==
  /\ nmPc = "massApplied"
  /\ fields' = AdvanceFields(fields, mDt, 1)
  /\ time' = RAdd(time, mDt)
  /\ timeIdx' = timeIdx + 1
  /\ nmPc' = "ready"
  /\ UNCHANGED <<elements, physics, mDt>>
  /\ UNCHANGED nmOthers

NewmarkInit ==
  /\ \E order \in ElementOrders :
       \E mass \in [Cells -> [1 .. ClosureSize -> MassVals]] :
         elements = [i \in 1 .. NElem |->
                       [num |-> order[i], mass |-> mass[order[i]]]]
  /\ physics \in PhysicsSets
  /\ fields = <<>>
  /\ time = RZero
  /\ mDt \in DtVals
  /\ timeIdx = 0
  /\ nmPc = "new"
  /\ DriverIdle /\ DirichletIdle /\ AttachIdle /\ OrderIdle /\ ElementIdle /\ OptionsIdle /\ LoggerIdle /\ SetupIdle /\ OptionsObjectIdle

NewmarkNext ==
  \/ InitializeGlobalDofs
  \/ AssembleIntoGlobalDof
  \/ ApplyInverseMassMatrix
  \/ TakeTimeStep

SpecNewmark == NewmarkInit /\ [][NewmarkNext]_vars

(***************************************************************************)
(* Claims about Order2Newmark.                                             *)
(***************************************************************************)
IsTakeTimeStep == nmPc = "massApplied" /\ nmPc' = "ready"
IsApplyInverseMass == nmPc = "assembled" /\ nmPc' = "massApplied"

Quadruples ==
  { [u |-> "u", v |-> "v", a |-> "a", h |-> "a_"],
    [u |-> "ux", v |-> "vx", a |-> "ax", h |-> "ax_"],
    [u |-> "uy", v |-> "vy", a |-> "ay", h |-> "ay_"],
    [u |-> "uz", v |-> "vz", a |-> "az", h |-> "az_"] }

\* v + (dt/2)(a + a_) at degree of freedom d, from the state before the step
NewVelocity(q, d) ==
  RAdd(fields[q.v].mGlb[d],
       RMul(RMul(RHalf, mDt), RAdd(fields[q.a].mGlb[d], fields[q.h].mGlb[d])))

\* u + dt * v_new + (dt^2/2) a at degree of freedom d
NewDisplacement(q, d) ==
  RAdd(RAdd(fields[q.u].mGlb[d], RMul(mDt, NewVelocity(q, d))),
       RMul(RMul(RHalf, RMul(mDt, mDt)), fields[q.a].mGlb[d]))

\* C1: one call of takeTimeStep applies, to every quadruple (u, v, a, a_)
\* present in the dictionary, exactly once v <- v + (dt/2)(a + a_), then
\* u <- u + dt v + (dt^2/2) a with the new v, then a_ <- a, and returns
\* time + dt.
C1_NewmarkUpdateOnce ==
  [][IsTakeTimeStep =>
       /\ time' = RAdd(time, mDt)
       /\ \A q \in Quadruples : q.a \in DOMAIN fields =>
            \A d \in Dofs :
              /\ fields'[q.v].mGlb[d] = NewVelocity(q, d)
              /\ fields'[q.u].mGlb[d] = NewDisplacement(q, d)
              /\ fields'[q.h].mGlb[d] = fields[q.a].mGlb[d]]_vars

\* the sum of the mass entries of all elements whose closure holds d
RECURSIVE ContributionSum(_, _, _)
ContributionSum(d, i, k) ==
  IF i > Len(elements) THEN 0
  ELSE IF k > ClosureSize THEN ContributionSum(d, i + 1, 1)
  ELSE (IF Closure(elements[i].num)[k] = d THEN elements[i].mass[k] ELSE 0)
       + ContributionSum(d, i, k + 1)

\* C4: after initializeGlobalDofs the global vector of mi holds at every
\* degree of freedom the reciprocal of the sum of the mass contributions of
\* the elements whose closure contains it, whatever the visiting order.
C4_InverseMassIsReciprocalOfSum ==
  (nmPc = "ready" /\ timeIdx = 0) =>
    \A d \in Dofs :
      RMul(fields["mi"].mGlb[d], RInt(ContributionSum(d, 1, 1))) = ROne

\* a shared degree of freedom assembled from two elements visited in
\* descending order
C4_Witness ==
  /\ nmPc = "ready" /\ timeIdx = 0
  /\ elements[1].num = 1
  /\ ContributionSum(1, 1, 1) = 3
  /\ fields["mi"].mGlb[1] = <<1, 3>>

AllMassPositive ==
  \A i \in 1 .. Len(elements) : \A k \in 1 .. ClosureSize : elements[i].mass[k] > 0

\* C5: with strictly positive element mass contributions, mi is strictly
\* positive on every degree of freedom once initialized, and no later
\* applyInverseMassMatrix or takeTimeStep changes it.
C5_InverseMassPositiveAndFixed ==
  [][(AllMassPositive /\ nmPc' \notin {"new", "error"}) =>
       /\ \A d \in Dofs : RPos(fields'["mi"].mGlb[d])
       /\ nmPc \notin {"new", "error"} => fields'["mi"] = fields["mi"]]_vars

C5_Witness ==
  /\ AllMassPositive
  /\ timeIdx >= 2 /\ nmPc = "ready"
  /\ \A d \in Dofs : RPos(fields["mi"].mGlb[d])
  /\ fields["mi"].mGlb[1] = <<1, 4>>

\* C6: applyInverseMassMatrix replaces the global vector of every present
\* acceleration field among a, ax, ay, az by its product with mi, once, and
\* leaves every other field and the set of fields as they were.
C6_InverseMassFrame ==
  [][IsApplyInverseMass =>
       /\ DOMAIN fields' = DOMAIN fields
       /\ \A f \in DOMAIN fields :
            IF f \in {"a", "ax", "ay", "az"}
            THEN /\ fields'[f].mLoc = fields[f].mLoc
                 /\ \A d \in Dofs :
                      fields'[f].mGlb[d] =
                        RMul(fields[f].mGlb[d], fields["mi"].mGlb[d])
            ELSE fields'[f] = fields[f]]_vars

\* the z acceleration of a 3-D elastic run after a mass solve that divided
\* it by a mass of 3
C6_Witness ==
  /\ nmPc = "massApplied"
  /\ "az" \in DOMAIN fields
  /\ fields["mi"].mGlb[1] = <<1, 3>>
  /\ fields["az"].mGlb[1] = <<5, 3>>
  /\ fields["uz"].mGlb[1] = RZero

(***************************************************************************)
(* The time loop of solve_vs_exact.  Every call the driver makes on the    *)
(* mesh or on an element is appended to callLog with the step it belongs   *)
(* to; checkTest returns the element's error against the exact solution.   *)
(***************************************************************************)
DurationVals == {RZero, RHalf, ROne, <<3, 2>>}     \* options.Duration()
SaveFrameEveryVals == {1, 2}                       \* options.SaveFrameEvery()
ErrorVals == {0, 6}                                \* values of checkTest
BlowUpLimit == 5

\* PullElementalFields / PushElementalFields of the two physics
ElementFieldLists ==
  { [pull |-> <<"u">>, push |-> <<"a">>],
    [pull |-> <<"ux", "uy", "uz">>, push |-> <<"ax", "ay", "az">>] }

Max(x, y) == IF x > y THEN x ELSE y

\* one entry of the log per element of args
Called(call, args) ==
  [i \in 1 .. Len(args) |-> [call |-> call, it |-> it, arg |-> args[i]]]

\* the elements with BndElm(), in the order of the vector
RECURSIVE BoundaryElements(_)
BoundaryElements(i) ==
  IF i > Len(drvElms) THEN <<>>
  ELSE (IF drvElms[i].bnd THEN <<i - 1>> ELSE <<>>) \o BoundaryElements(i + 1)

\* the statement executed after the one at p, in the order of the statements
\* of a loop body that solves for the mass before it assembles
DrvAfterMassFirst(p) ==
  CASE p = "checkOut" -> "zero"
    [] p = "zero" -> "elements"
    [] p = "elements" -> "sentinel"
    [] p = "sentinel" -> "dirichlet"
    [] p = "dirichlet" -> "massSolve"
    [] p = "massSolve" -> "checkInBegin"
    [] p = "checkInEnd" -> "advance"
    [] p = "advance" -> "saveFrame"
    [] p = "saveFrame" -> "increment"
    [] p = "increment" -> "loopHead"

\* the statement executed after the one at p
DrvAfter(p) ==
  CASE p = "checkOut" -> "zero"
    [] p = "zero" -> "elements"
    [] p = "elements" -> "sentinel"
    [] p = "sentinel" -> "dirichlet"
    [] p = "dirichlet" -> "checkInBegin"
    [] p = "checkInEnd" -> "massSolve"
    [] p = "massSolve" -> "advance"
    [] p = "advance" -> "saveFrame"
    [] p = "saveFrame" -> "increment"
    [] p = "increment" -> "loopHead"

\* entry of solve_vs_exact up to the loop
DrvEnter ==
  /\ drvPc = "entry"
  /\ it' = 0 /\ drvTime' = RZero /\ maxError' = 0
  /\ callLog' = IF drvOpts.SaveMovie
                THEN callLog \o Called("setUpMovie", <<"movie">>) ELSE callLog
  /\ drvPc' = "loopHead"
  /\ UNCHANGED <<drvOpts, drvElms, drvIdx>>
  /\ UNCHANGED drvOthers

\* The loop condition with <= in place of <.
LoopContinuesInclusive(t, duration) == ~ RLess(duration, t)

\* the loop condition time < duration
LoopContinues(t, duration) == RLess(t, duration)

\* while (time < duration); after the loop, finalizeMovie and return
DrvLoopHead ==
  /\ drvPc = "loopHead"
  /\ LoopContinues(drvTime, drvOpts.Duration) => it < MaxSteps
  /\ IF LoopContinues(drvTime, drvOpts.Duration)
     THEN /\ maxError' = 0
          /\ drvPc' = "checkOut"
          /\ callLog' = callLog
     ELSE /\ maxError' = maxError
          /\ drvPc' = "returned"
          /\ callLog' = IF drvOpts.SaveMovie
                        THEN callLog \o Called("finalizeMovie", <<"movie">>)
                        ELSE callLog
  /\ UNCHANGED <<drvOpts, drvElms, it, drvTime, drvIdx>>
  /\ UNCHANGED drvOthers

\* mesh->checkOutField for every pull field
DrvCheckOut ==
  /\ drvPc = "checkOut"
  /\ callLog' = callLog \o Called("checkOutField", drvElms[1].pull)
  /\ drvPc' = DrvAfter(drvPc)
  /\ UNCHANGED <<drvOpts, drvElms, it, drvTime, drvIdx, maxError>>
  /\ UNCHANGED drvOthers

\* mesh->zeroFields for every push field
DrvZeroFields ==
  /\ drvPc = "zero"
  /\ callLog' = callLog \o Called("zeroFields", drvElms[1].push)
  /\ drvPc' = DrvAfter(drvPc)
  /\ drvIdx' = 1
  /\ UNCHANGED <<drvOpts, drvElms, it, drvTime, maxError>>
  /\ UNCHANGED drvOthers

\* one iteration of the loop over the elements
DrvElement ==
  /\ drvPc = "elements"
  /\ drvIdx <= Len(drvElms)
  /\ \E err \in ErrorVals :
       /\ maxError' = Max(maxError, err)
       /\ callLog' = callLog
            \o Called("getFieldOnElement", [k \in 1 .. Len(drvElms[drvIdx].pull) |-> drvIdx - 1])
            \o Called("checkTest", <<drvIdx - 1>>)
            \o Called("computeStiffnessTerm", <<drvIdx - 1>>)
            \o Called("addFieldFromElement", [k \in 1 .. Len(drvElms[drvIdx].push) |-> drvIdx - 1])
  /\ drvIdx' = drvIdx + 1
  /\ UNCHANGED <<drvPc, drvOpts, drvElms, it, drvTime>>
  /\ UNCHANGED drvOthers

DrvElementsDone ==
  /\ drvPc = "elements"
  /\ drvIdx > Len(drvElms)
  /\ drvPc' = DrvAfter(drvPc)
  /\ UNCHANGED <<drvOpts, drvElms, it, drvTime, drvIdx, maxError, callLog>>
  /\ UNCHANGED drvOthers

\* The test with >= against twice the limit.
BlowsUpAtTwiceTheLimit(err) == err >= 2 * BlowUpLimit

\* max_error > 5
BlowsUp(err) == err > BlowUpLimit

\* if (max_error > 5) exit(1)
DrvSentinel ==
  /\ drvPc = "sentinel"
  /\ drvPc' = IF BlowsUp(maxError) THEN "exited" ELSE DrvAfter(drvPc)
  /\ UNCHANGED <<drvOpts, drvElms, it, drvTime, drvIdx, maxError, callLog>>
  /\ UNCHANGED drvOthers

\* the loop applying applyDirichletBoundaries on the boundary elements
DrvDirichlet ==
  /\ drvPc = "dirichlet"
  /\ callLog' = callLog \o Called("applyDirichletBoundaries", BoundaryElements(1))
  /\ drvPc' = DrvAfter(drvPc)
  /\ drvIdx' = 1
  /\ UNCHANGED <<drvOpts, drvElms, it, drvTime, maxError>>
  /\ UNCHANGED drvOthers

\* mesh->checkInFieldBegin of the push field at drvIdx
DrvCheckInBegin ==
  /\ drvPc = "checkInBegin"
  /\ callLog' = callLog \o Called("checkInFieldBegin", <<drvElms[1].push[drvIdx]>>)
  /\ drvPc' = "checkInEnd"
  /\ UNCHANGED <<drvOpts, drvElms, it, drvTime, drvIdx, maxError>>
  /\ UNCHANGED drvOthers

\* mesh->checkInFieldEnd of the same field, then the next push field
DrvCheckInEnd ==
  /\ drvPc = "checkInEnd"
  /\ callLog' = callLog \o Called("checkInFieldEnd", <<drvElms[1].push[drvIdx]>>)
  /\ IF drvIdx < Len(drvElms[1].push)
     THEN drvPc' = "checkInBegin" /\ drvIdx' = drvIdx + 1
     ELSE drvPc' = DrvAfter(drvPc) /\ drvIdx' = 1
  /\ UNCHANGED <<drvOpts, drvElms, it, drvTime, maxError>>
  /\ UNCHANGED drvOthers

\* mesh->applyInverseMassMatrix()
DrvMassSolve ==
  /\ drvPc = "massSolve"
  /\ callLog' = callLog \o Called("applyInverseMassMatrix", <<"mesh">>)
  /\ drvPc' = DrvAfter(drvPc)
  /\ UNCHANGED <<drvOpts, drvElms, it, drvTime, drvIdx, maxError>>
  /\ UNCHANGED drvOthers

\* mesh->advanceField(timeStep)
DrvAdvance ==
  /\ drvPc = "advance"
  /\ callLog' = callLog \o Called("advanceField", <<"mesh">>)
  /\ drvPc' = DrvAfter(drvPc)
  /\ UNCHANGED <<drvOpts, drvElms, it, drvTime, drvIdx, maxError>>
  /\ UNCHANGED drvOthers

\* if (SaveMovie && (it % SaveFrameEvery == 0 || it == 0)) saveFrame("a", it)
DrvSaveFrame ==
  /\ drvPc = "saveFrame"
  /\ callLog' =
       IF drvOpts.SaveMovie /\ (it % drvOpts.SaveFrameEvery = 0 \/ it = 0)
       THEN callLog \o Called("saveFrame", <<"a">>)
       ELSE callLog
  /\ drvPc' = DrvAfter(drvPc)
  /\ UNCHANGED <<drvOpts, drvElms, it, drvTime, drvIdx, maxError>>
  /\ UNCHANGED drvOthers

\* it++; time += timeStep
DrvIncrement ==
  /\ drvPc = "increment"
  /\ it' = it + 1
  /\ drvTime' = RAdd(drvTime, drvOpts.TimeStep)
  /\ drvPc' = DrvAfter(drvPc)
  /\ UNCHANGED <<drvOpts, drvElms, drvIdx, maxError, callLog>>
  /\ UNCHANGED drvOthers

DriverInit ==
  /\ drvPc = "entry"
  /\ drvOpts \in [TimeStep : DtVals, Duration : DurationVals,
                  SaveMovie : BOOLEAN, SaveFrameEvery : SaveFrameEveryVals]
  /\ \E fl \in ElementFieldLists : \E bnd \in [1 .. NElem -> BOOLEAN] :
       drvElms = [i \in 1 .. NElem |->
                    [pull |-> fl.pull, push |-> fl.push, bnd |-> bnd[i]]]
  /\ it = 0 /\ drvTime = RZero /\ drvIdx = 0 /\ maxError = 0
  /\ callLog = <<>>
  /\ NewmarkIdle /\ DirichletIdle /\ AttachIdle /\ OrderIdle /\ ElementIdle /\ OptionsIdle /\ LoggerIdle /\ SetupIdle /\ OptionsObjectIdle

DriverNext ==
  \/ DrvEnter
  \/ DrvLoopHead
  \/ DrvCheckOut
  \/ DrvZeroFields
  \/ DrvElement
  \/ DrvElementsDone
  \/ DrvSentinel
  \/ DrvDirichlet
  \/ DrvCheckInBegin
  \/ DrvCheckInEnd
  \/ DrvMassSolve
  \/ DrvAdvance
  \/ DrvSaveFrame
  \/ DrvIncrement

SpecDriver == DriverInit /\ [][DriverNext]_vars

\* The driver is one sequential thread: a statement that can run does run.
SpecDriverFair == DriverInit /\ [][DriverNext]_vars /\ WF_vars(DriverNext)

(***************************************************************************)
(* Claims about the time loop.                                             *)
(***************************************************************************)
LogIdx == 1 .. Len(callLog)

\* the calls at positions before j that belong to the same step as j
EarlierInStep(j) == {i \in LogIdx : i < j /\ callLog[i].it = callLog[j].it}

PushFieldSet == {drvElms[1].push[k] : k \in 1 .. Len(drvElms[1].push)}

\* C2: in every time step, Dirichlet enforcement and the multiplication by
\* the inverse mass happen after checkInFieldEnd of that step has returned
\* for every push field.
C2_BoundaryAndMassAfterAssembly ==
  \A j \in LogIdx :
    callLog[j].call \in {"applyDirichletBoundaries", "applyInverseMassMatrix"} =>
      \A f \in PushFieldSet :
        \E i \in EarlierInStep(j) :
          callLog[i].call = "checkInFieldEnd" /\ callLog[i].arg = f

PhaseRank(call) ==
  CASE call = "checkOutField" -> 1
    [] call = "zeroFields" -> 2
    [] call \in {"getFieldOnElement", "computeStiffnessTerm",
                 "addFieldFromElement"} -> 3
    [] call \in {"checkInFieldBegin", "checkInFieldEnd"} -> 4
    [] call = "applyInverseMassMatrix" -> 5
    [] call = "advanceField" -> 6
    [] call = "saveFrame" -> 7
    [] OTHER -> 0

\* C3: in each time step the driver pulls the fields, zeroes the push
\* fields, computes and pushes on every element, assembles, multiplies by
\* the inverse mass and updates, in this order; a frame of a step is written
\* after the update of that step; no call of a step is made before the
\* update of the step before it.
C3_PhasesInOrder ==
  /\ \A i, j \in LogIdx : i < j =>
       /\ callLog[i].it <= callLog[j].it
       /\ (/\ callLog[i].it = callLog[j].it
           /\ PhaseRank(callLog[i].call) > 0
           /\ PhaseRank(callLog[j].call) > 0)
          => PhaseRank(callLog[i].call) <= PhaseRank(callLog[j].call)
  /\ \A j \in LogIdx : callLog[j].call = "advanceField" =>
       /\ \A r \in 1 .. 5 :
            \E i \in EarlierInStep(j) : PhaseRank(callLog[i].call) = r
       /\ \A e \in Cells :
            \E i, k \in EarlierInStep(j) :
              /\ i < k
              /\ callLog[i].call = "computeStiffnessTerm" /\ callLog[i].arg = e
              /\ callLog[k].call = "addFieldFromElement" /\ callLog[k].arg = e
  /\ \A j \in LogIdx : callLog[j].call = "saveFrame" =>
       \E i \in EarlierInStep(j) : callLog[i].call = "advanceField"
  /\ \A j \in LogIdx : (PhaseRank(callLog[j].call) > 0 /\ callLog[j].it > 0) =>
       \E i \in LogIdx :
         /\ i < j
         /\ callLog[i].it = callLog[j].it - 1
         /\ callLog[i].call = "advanceField"

\* two complete steps of an elastic run, each followed by its frame
C3_Witness ==
  /\ drvPc = "returned"
  /\ it = 2
  /\ Len(drvElms[1].push) = 3
  /\ \E i, j \in LogIdx :
       /\ i < j
       /\ callLog[i].call = "saveFrame" /\ callLog[i].it = 0
       /\ callLog[j].call = "saveFrame" /\ callLog[j].it = 1

InStep == drvPc \notin {"entry", "loopHead", "returned"}

LoopExited == drvPc \in {"returned", "exited"}

\* the duration is reached within MaxSteps steps
FitsMaxSteps ==
  <<drvOpts.TimeStep, drvOpts.Duration>> \in
    { p \in DtVals \X DurationVals :
        ~ RLess(RMul(RInt(MaxSteps), p[1]), p[2]) }

StepsBeforeDuration ==
  /\ drvTime = RMul(RInt(it), drvOpts.TimeStep)
  /\ InStep => RLess(drvTime, drvOpts.Duration)
  /\ it > 0 => RLess(RMul(RInt(it - 1), drvOpts.TimeStep), drvOpts.Duration)
  /\ drvPc = "returned" => ~ RLess(drvTime, drvOpts.Duration)

LaterPhaseCalls ==
  { i \in LogIdx :
      /\ callLog[i].it = it
      /\ callLog[i].call \in {"applyDirichletBoundaries", "checkInFieldBegin",
           "checkInFieldEnd", "applyInverseMassMatrix", "advanceField",
           "saveFrame"} }

QDofs == 0 .. (2 * NElem + 1)
ElementFaces(e) == <<4 * e, 4 * e + 1, 4 * e + 2, 4 * e + 3>>

\* the degrees of freedom in the closure of a face
FaceDofs(f) ==
  LET e == f \div 4
  IN  CASE f % 4 = 0 -> {e, e + 1}
        [] f % 4 = 1 -> {e + 1, e + NElem + 2}
        [] f % 4 = 2 -> {e + NElem + 1, e + NElem + 2}
        [] f % 4 = 3 -> {e, e + NElem + 1}

\* the faces on the boundary of the mesh
BoundaryFaces ==
  {f \in 0 .. (4 * NElem - 1) :
     \/ f % 4 \in {0, 2}
     \/ f = 3
     \/ f = 4 * (NElem - 1) + 1}

SidesetNames == {"x0", "x1"}
DirichletNameLists == {<<>>, <<"x0">>, <<"x1">>, <<"x0", "x1">>, <<"y0">>}

\* Mesh::BoundaryElementFaces() of a mesh whose boundary faces carry the
\* sideset names given by assign
BoundaryElementFacesOf(assign) ==
  LET facesOf(n, e) == SelectSeq(ElementFaces(e),
                         LAMBDA f : f \in BoundaryFaces /\ assign[f] = n)
      used == {n \in SidesetNames : \E f \in BoundaryFaces : assign[f] = n}
  IN  [n \in used |->
         [e \in {c \in Cells : facesOf(n, c) # <<>>} |-> facesOf(n, e)]]

\* QuadNew::setBoundaryConditions on the element dirIdx
SetBoundaryConditions ==
  /\ dirPc = "setBoundaryConditions"
  /\ LET names == {n \in DOMAIN bndFaces : dirIdx \in DOMAIN bndFaces[n]}
     IN  elmBnd' = [elmBnd EXCEPT ![dirIdx] =
                      [mBndElm |-> names # {},
                       mBnd |-> [n \in names |-> bndFaces[n][dirIdx]]]]
  /\ IF dirIdx + 1 < NElem
     THEN dirIdx' = dirIdx + 1 /\ dirPc' = dirPc
     ELSE dirIdx' = 0 /\ dirPc' = "applyDirichletBoundaries"
  /\ UNCHANGED <<bndFaces, dirNames, fieldA>>
  /\ UNCHANGED dirOthers

\* setFieldFromFace with zeros on each face of a list
RECURSIVE ZeroFaces(_, _, _)
ZeroFaces(field, faceids, i) ==
  IF i > Len(faceids) THEN field
  ELSE ZeroFaces([d \in QDofs |-> IF d \in FaceDofs(faceids[i]) THEN 0 ELSE field[d]],
                 faceids, i + 1)

\* the loop of applyDirichletBoundaries run over every sideset of the element
RECURSIVE DirichletAppliedAllSidesets(_, _, _, _)
DirichletAppliedAllSidesets(st, names, i, field) ==
  IF DOMAIN st.mBnd = {} THEN [mBnd |-> st.mBnd, field |-> field]
  ELSE LET n == CHOOSE k \in DOMAIN st.mBnd : TRUE
           rest == [mBndElm |-> st.mBndElm,
                    mBnd |-> [k \in DOMAIN st.mBnd \ {n} |-> st.mBnd[k]]]
           done == DirichletAppliedAllSidesets(rest, names, i,
                                               ZeroFaces(field, st.mBnd[n], 1))
       IN  [mBnd |-> st.mBnd, field |-> done.field]

\* the loop of applyDirichletBoundaries over the names of the option, from
\* the i-th: mBnd[bndry] creates an empty entry for a name it does not hold
RECURSIVE DirichletApplied(_, _, _, _)
DirichletApplied(st, names, i, field) ==
  IF i > Len(names) THEN [mBnd |-> st.mBnd, field |-> field]
  ELSE LET mBnd == IF names[i] \in DOMAIN st.mBnd THEN st.mBnd
                   ELSE st.mBnd @@ (names[i] :> <<>>)
       IN  DirichletApplied([mBndElm |-> st.mBndElm, mBnd |-> mBnd], names,
                            i + 1, ZeroFaces(field, mBnd[names[i]], 1))

\* QuadNew::applyDirichletBoundaries(mesh, options, "a") on the element dirIdx
ApplyDirichletBoundaries ==
  /\ dirPc = "applyDirichletBoundaries"
  /\ IF ~ elmBnd[dirIdx].mBndElm
     THEN UNCHANGED <<elmBnd, fieldA>>
     ELSE LET r == DirichletApplied(elmBnd[dirIdx], dirNames, 1, fieldA)
          IN  /\ fieldA' = r.field
              /\ elmBnd' = [elmBnd EXCEPT ![dirIdx].mBnd = r.mBnd]
  /\ IF dirIdx + 1 < NElem
     THEN dirIdx' = dirIdx + 1 /\ dirPc' = dirPc
     ELSE dirIdx' = 0 /\ dirPc' = "enforced"
  /\ UNCHANGED <<bndFaces, dirNames>>
  /\ UNCHANGED dirOthers

DirichletInit ==
  /\ dirPc = "setBoundaryConditions"
  /\ dirIdx = 0
  /\ \E assign \in [BoundaryFaces -> SidesetNames \cup {"none"}] :
       bndFaces = BoundaryElementFacesOf(assign)
  /\ dirNames \in DirichletNameLists
  /\ elmBnd = [e \in Cells |-> [mBndElm |-> FALSE, mBnd |-> <<>>]]
  /\ fieldA = [d \in QDofs |-> d + 1]
  /\ NewmarkIdle /\ DriverIdle /\ AttachIdle /\ OrderIdle /\ ElementIdle /\ OptionsIdle /\ LoggerIdle /\ SetupIdle /\ OptionsObjectIdle

DirichletNext ==
  \/ SetBoundaryConditions
  \/ ApplyDirichletBoundaries

SpecDirichlet == DirichletInit /\ [][DirichletNext]_vars

(***************************************************************************)
(* Claims about Dirichlet enforcement.                                     *)
(***************************************************************************)
\* the faces of element e that lie in a sideset the option names
NamedFaces(e) ==
  {f \in BoundaryFaces :
     /\ f \div 4 = e
     /\ \E i \in 1 .. Len(dirNames) :
          /\ dirNames[i] \in DOMAIN bndFaces
          /\ e \in DOMAIN bndFaces[dirNames[i]]
          /\ \E k \in 1 .. Len(bndFaces[dirNames[i]][e]) :
               bndFaces[dirNames[i]][e][k] = f}

PinnedDofs(e) == UNION {FaceDofs(f) : f \in NamedFaces(e)}

\* C7: enforcement on an element leaves the field "a" zero on every degree
\* of freedom of every face of the element that lies in a sideset named by
\* the homogeneous-Dirichlet option, and as it was on every other degree of
\* freedom; on an element that is not on a boundary it changes nothing.
C7_DirichletZeroesNamedFacesOnly ==
  [][dirPc = "applyDirichletBoundaries" =>
       \A d \in QDofs :
         fieldA'[d] = IF d \in PinnedDofs(dirIdx) THEN 0 ELSE fieldA[d]]_vars

\* an element with one face in a named sideset and one in a sideset the
\* option does not name
C7_Witness ==
  /\ dirPc = "enforced"
  /\ dirNames = <<"x1">>
  /\ "x0" \in DOMAIN bndFaces /\ 0 \in DOMAIN bndFaces["x0"]
  /\ bndFaces["x0"][0] = <<3>>
  /\ "x1" \in DOMAIN bndFaces /\ 0 \in DOMAIN bndFaces["x1"]
  /\ bndFaces["x1"][0] = <<0>>
  /\ 1 \notin DOMAIN bndFaces["x0"] /\ 1 \notin DOMAIN bndFaces["x1"]
  /\ fieldA[0] = 0 /\ fieldA[1] = 0
  /\ fieldA[NElem + 1] = NElem + 2

(***************************************************************************)
(* Attaching receivers and sources.  Positions are in half cell widths     *)
(* along the row of elements: element e covers the closed interval         *)
(* [2e, 2e + 2].  A point is the object (position, reference position)     *)
(* together with the caller's handle to it (held).                         *)
(***************************************************************************)
MaxCalls == 3
Receivers == {1}
Sources == {2}
LocVals == -1 .. (2 * NElem)
RefUnset == 9

\* ConcreteShape::checkHull: the closed hull of the element
checkHull(x, e) == 2 * e <= x /\ x <= 2 * e + 2

\* ConcreteShape::inverseCoordinateTransform: reference position in [-1, 1]
inverseCoordinateTransform(x, e) == x - (2 * e + 1)

\* the body of attachReceiver / attachSource that finalizes every call
HexAttachFinalizing(pts, list, id, e, finalize) ==
  IF ~ pts[id].held THEN [result |-> "false", pts |-> pts, list |-> list]
  ELSE IF checkHull(pts[id].loc, e)
  THEN [result |-> "true",
        pts |-> [pts EXCEPT ![id].ref = inverseCoordinateTransform(pts[id].loc, e),
                            ![id].held = FALSE],
        list |-> Append(list, id)]
  ELSE [result |-> "false", pts |-> pts, list |-> list]

\* the body shared by Hexahedra::attachReceiver and Hexahedra::attachSource
HexAttach(pts, list, id, e, finalize) ==
  IF ~ pts[id].held THEN [result |-> "false", pts |-> pts, list |-> list]
  ELSE IF checkHull(pts[id].loc, e)
  THEN IF ~ finalize THEN [result |-> "true", pts |-> pts, list |-> list]
       ELSE [result |-> "true",
             pts |-> [pts EXCEPT ![id].ref = inverseCoordinateTransform(pts[id].loc, e),
                                 ![id].held = FALSE],
             list |-> Append(list, id)]
  ELSE [result |-> "false", pts |-> pts, list |-> list]

\* Hexahedra::attachReceiver(receiver, finalize) on element e
HexAttachReceiver ==
  /\ nCalls < MaxCalls
  /\ \E e \in Cells, id \in Receivers, finalize \in BOOLEAN :
       /\ elmLists[e].kind = "Hexahedra"
       /\ LET r == HexAttach(points, elmLists[e].mRec, id, e, finalize)
          IN  /\ points' = r.pts
              /\ elmLists' = [elmLists EXCEPT ![e].mRec = r.list]
              /\ lastCall' = [fn |-> "Hexahedra::attachReceiver", elem |-> e,
                              id |-> id, finalize |-> finalize, result |-> r.result]
  /\ nCalls' = nCalls + 1
  /\ UNCHANGED atOthers

\* Hexahedra::attachSource(source, finalize) on element e
HexAttachSource ==
  /\ nCalls < MaxCalls
  /\ \E e \in Cells, id \in Sources, finalize \in BOOLEAN :
       /\ elmLists[e].kind = "Hexahedra"
       /\ LET r == HexAttach(points, elmLists[e].mSrc, id, e, finalize)
          IN  /\ points' = r.pts
              /\ elmLists' = [elmLists EXCEPT ![e].mSrc = r.list]
              /\ lastCall' = [fn |-> "Hexahedra::attachSource", elem |-> e,
                              id |-> id, finalize |-> finalize, result |-> r.result]
  /\ nCalls' = nCalls + 1
  /\ UNCHANGED atOthers

\* the loop of QuadNew::attachReceiver / attachSource over the vector of
\* shared handles, from identifier id
RECURSIVE QuadAttach(_, _, _, _, _)
QuadAttach(pts, list, ids, id, e) ==
  IF id \notin ids THEN [pts |-> pts, list |-> list]
  ELSE IF checkHull(pts[id].loc, e)
  THEN QuadAttach([pts EXCEPT ![id].ref = inverseCoordinateTransform(pts[id].loc, e)],
                  Append(list, id), ids, id + 1, e)
  ELSE QuadAttach(pts, list, ids, id + 1, e)

\* QuadNew::attachReceiver(receivers) on element e
QuadAttachReceiver ==
  /\ nCalls < MaxCalls
  /\ \E e \in Cells :
       /\ elmLists[e].kind = "QuadNew"
       /\ LET r == QuadAttach(points, elmLists[e].mRec, Receivers, 1, e)
          IN  /\ points' = r.pts
              /\ elmLists' = [elmLists EXCEPT ![e].mRec = r.list]
              /\ lastCall' = [fn |-> "QuadNew::attachReceiver", elem |-> e,
                              id |-> 0, finalize |-> TRUE, result |-> "void"]
  /\ nCalls' = nCalls + 1
  /\ UNCHANGED atOthers

\* QuadNew::attachSource(sources) on element e
QuadAttachSource ==
  /\ nCalls < MaxCalls
  /\ \E e \in Cells :
       /\ elmLists[e].kind = "QuadNew"
       /\ LET r == QuadAttach(points, elmLists[e].mSrc, Sources, 2, e)
          IN  /\ points' = r.pts
              /\ elmLists' = [elmLists EXCEPT ![e].mSrc = r.list]
              /\ lastCall' = [fn |-> "QuadNew::attachSource", elem |-> e,
                              id |-> 0, finalize |-> TRUE, result |-> "void"]
  /\ nCalls' = nCalls + 1
  /\ UNCHANGED atOthers

AttachInit ==
  /\ points \in [Receivers \cup Sources ->
                   [loc : LocVals, ref : {RefUnset}, held : {TRUE}]]
  /\ \E kind \in {"Hexahedra", "QuadNew"} :
       elmLists = [e \in Cells |-> [kind |-> kind, mRec |-> <<>>, mSrc |-> <<>>]]
  /\ lastCall = [fn |-> "none", elem |-> 0, id |-> 0, finalize |-> FALSE,
                 result |-> "void"]
  /\ nCalls = 0
  /\ NewmarkIdle /\ DriverIdle /\ DirichletIdle /\ OrderIdle /\ ElementIdle /\ OptionsIdle /\ LoggerIdle /\ SetupIdle /\ OptionsObjectIdle

AttachNext ==
  \/ HexAttachReceiver
  \/ HexAttachSource
  \/ QuadAttachReceiver
  \/ QuadAttachSource

SpecAttach == AttachInit /\ [][AttachNext]_vars

(***************************************************************************)
(* Claims about attaching receivers and sources.                           *)
(***************************************************************************)
\* C8: attachSource and attachReceiver called with finalize = false only
\* report whether the point lies in the hull of the element: the lists of
\* the elements, the object and the caller's handle stay as they were, and
\* a null handle yields false.
C8_QueryOnlyReports ==
  [][(/\ nCalls' = nCalls + 1
      /\ lastCall'.fn \in {"Hexahedra::attachReceiver", "Hexahedra::attachSource"}
      /\ ~ lastCall'.finalize) =>
       /\ elmLists' = elmLists
       /\ points' = points
       /\ lastCall'.result =
            IF /\ points[lastCall'.id].held
               /\ 2 * lastCall'.elem <= points[lastCall'.id].loc
               /\ points[lastCall'.id].loc <= 2 * lastCall'.elem + 2
            THEN "true" ELSE "false"]_vars

\* a query on the second of two elements sharing the point answers true and
\* leaves the source with the caller
C8_Witness ==
  /\ lastCall.fn = "Hexahedra::attachSource"
  /\ ~ lastCall.finalize /\ lastCall.elem = 1 /\ lastCall.result = "true"
  /\ nCalls = 2
  /\ points[2] = [loc |-> 2, ref |-> RefUnset, held |-> TRUE]
  /\ \A e \in Cells : elmLists[e].mSrc = <<>>

\* the elements whose lists hold the point id
Holders(id) ==
  {e \in Cells : \E k \in 1 .. Len(elmLists[e].mRec \o elmLists[e].mSrc) :
                   (elmLists[e].mRec \o elmLists[e].mSrc)[k] = id}

\* C9: no sequence of attach calls leaves the same source or receiver in
\* the lists of two elements; a point on a boundary shared by several
\* elements is held by one element only.
C9_SingleHolder ==
  \A id \in Receivers \cup Sources : Cardinality(Holders(id)) <= 1

(***************************************************************************)
(* Polynomial orders.  Each operator gives the ways a call with the given  *)
(* order can end: "error" (an exception, an abort or a failed assertion),  *)
(* "table" or "element" (the call returns).  A vector of negative size, a  *)
(* read outside a vector and an assertion that a build may compile out     *)
(* leave both ways open.                                                   *)
(***************************************************************************)
mMaxOrder == 7         \* Hexahedra: the orders compiled in without HEX_MAX_ORDER > 7
QuadMaxOrder == 10     \* QuadNew: the highest order with generated tables
OrderMargin == 2       \* orders tried below 0 and above the highest order
Orders == (0 - OrderMargin) .. (QuadMaxOrder + OrderMargin)

\* Hexahedra::Hexahedra
HexahedraCtor(order) ==
  IF order <= 0 \/ order > mMaxOrder THEN {"error"} ELSE {"element"}

\* Hexahedra::GllPointsForOrder and Hexahedra::GllIntegrationWeights
HexGllPointsForOrder(order) ==
  IF order > mMaxOrder THEN {"error"}
  ELSE IF order + 1 < 0 THEN {"error", "table"}
  ELSE {"table"}

\* Hexahedra::interpolateLagrangePolynomials
HexInterpolateLagrangePolynomials(order) ==
  IF order > mMaxOrder THEN {"error"}
  ELSE IF (order + 1) * (order + 1) * (order + 1) < 0 THEN {"error", "table"}
  ELSE IF order \in 1 .. mMaxOrder THEN {"table"}
  ELSE {"error"}

\* Hexahedra::setupGradientOperator
HexSetupGradientOperator(order) ==
  IF order > mMaxOrder THEN {"error"}
  ELSE IF "error" \in HexGllPointsForOrder(order) THEN {"error", "table"}
  ELSE IF order + 1 = 0 THEN {"error", "table"}
  ELSE IF order \in 1 .. mMaxOrder THEN {"table"}
  ELSE {"error"}

\* QuadNew::GllPointsForOrder and QuadNew::GllIntegrationWeightsForOrder
QuadGllPointsForOrder(order) ==
  IF order + 1 < 0 THEN {"error", "table"} ELSE {"table"}

\* QuadNew::ClosureMappingForOrder
QuadClosureMappingForOrder(order) ==
  IF (order + 1) * (order + 1) < 0 THEN {"error", "table"} ELSE {"table"}

\* QuadNew::interpolateLagrangePolynomials
QuadInterpolateLagrangePolynomials(order) ==
  IF order > 0 /\ order < 11 THEN {"table"} ELSE {"error", "table"}

\* QuadNew::setupGradientOperator
QuadSetupGradientOperator(order) ==
  IF order + 1 <= 0 THEN {"error", "table"} ELSE {"table"}

\* QuadNew::QuadNew
QuadNewCtor(order) ==
  IF \/ "error" \in QuadSetupGradientOperator(order)
     \/ "error" \in QuadClosureMappingForOrder(order)
     \/ "error" \in QuadGllPointsForOrder(order)
  THEN {"error", "element"}
  ELSE {"element"}

HexahedraEntryPoints ==
  {"Hexahedra", "GllPointsForOrder", "GllIntegrationWeights",
   "interpolateLagrangePolynomials", "setupGradientOperator"}

QuadNewEntryPoints ==
  {"QuadNew", "GllPointsForOrder", "GllIntegrationWeightsForOrder",
   "ClosureMappingForOrder", "interpolateLagrangePolynomials",
   "setupGradientOperator"}

\* a call of an entry point of Hexahedra with the order refOrder
HexahedraCall ==
  /\ \E fn \in HexahedraEntryPoints :
       \E out \in (CASE fn = "Hexahedra" -> HexahedraCtor(refOrder)
                     [] fn \in {"GllPointsForOrder", "GllIntegrationWeights"} ->
                          HexGllPointsForOrder(refOrder)
                     [] fn = "interpolateLagrangePolynomials" ->
                          HexInterpolateLagrangePolynomials(refOrder)
                     [] fn = "setupGradientOperator" ->
                          HexSetupGradientOperator(refOrder)) :
         refCall' = [class |-> "Hexahedra", fn |-> fn, outcome |-> out]
  /\ UNCHANGED refOrder
  /\ UNCHANGED refOthers

\* a call of an entry point of QuadNew with the order refOrder
QuadNewCall ==
  /\ \E fn \in QuadNewEntryPoints :
       \E out \in (CASE fn = "QuadNew" -> QuadNewCtor(refOrder)
                     [] fn \in {"GllPointsForOrder", "GllIntegrationWeightsForOrder"} ->
                          QuadGllPointsForOrder(refOrder)
                     [] fn = "ClosureMappingForOrder" ->
                          QuadClosureMappingForOrder(refOrder)
                     [] fn = "interpolateLagrangePolynomials" ->
                          QuadInterpolateLagrangePolynomials(refOrder)
                     [] fn = "setupGradientOperator" ->
                          QuadSetupGradientOperator(refOrder)) :
         refCall' = [class |-> "QuadNew", fn |-> fn, outcome |-> out]
  /\ UNCHANGED refOrder
  /\ UNCHANGED refOthers

OrderInit ==
  /\ refOrder \in Orders
  /\ refCall = [class |-> "none", fn |-> "none", outcome |-> "none"]
  /\ NewmarkIdle /\ DriverIdle /\ DirichletIdle /\ AttachIdle /\ ElementIdle /\ OptionsIdle /\ LoggerIdle /\ SetupIdle /\ OptionsObjectIdle

OrderNext ==
  \/ HexahedraCall
  \/ QuadNewCall

SpecOrder == OrderInit /\ [][OrderNext]_vars

(***************************************************************************)
(* Claims about polynomial orders.                                         *)
(***************************************************************************)
\* C10: for every order outside [1, N_max], zero, negative or above the
\* maximum of the element class, the constructor and every reference-table
\* entry point end with an error and return neither a table nor an element.
C10_UnsupportedOrderRejected ==
  /\ (refCall.class = "Hexahedra" /\ refOrder \notin 1 .. mMaxOrder)
       => refCall.outcome = "error"
  /\ (refCall.class = "QuadNew" /\ refOrder \notin 1 .. QuadMaxOrder)
       => refCall.outcome = "error"

(***************************************************************************)
(* Elements.  The tables of GLL weights and of derivatives of the 1D       *)
(* Lagrange polynomials come from generated code; a constructed element    *)
(* holds one table of each kind out of a small set, for n points per       *)
(* direction.  Points of a hexahedron are numbered r + s*n + t*n*n.        *)
(***************************************************************************)
MaxKernelOrder == 2      \* highest order on which the kernels are run

\* candidate results of GllIntegrationWeights: n positive weights, the same
\* at a node and at its mirror image
WeightTables(n) ==
  { [i \in 0 .. (n - 1) |-> ROne],
    [i \in 0 .. (n - 1) |->
       Rat(1 + 2 * (IF i < n - 1 - i THEN i ELSE n - 1 - i), 3)] }

\* candidate results of setupGradientOperator: an n x n matrix whose rows
\* sum to zero, and one whose rows do not
GradTables(n) ==
  { [i \in 0 .. (n - 1) |-> [j \in 0 .. (n - 1) |->
       IF j # i THEN i + 2 * j + 1
       ELSE 0 - (n * (i + 1) + n * (n - 1) - (3 * i + 1))]],
    [i \in 0 .. (n - 1) |-> [j \in 0 .. (n - 1) |-> i + 2 * j + 1]] }

\* IntVec::LinSpaced(n, 1, n)
LinSpacedFromOne(n) == [i \in 1 .. n |-> i]

\* IntVec::LinSpaced(n, 0, n - 1)
LinSpaced(n) == [i \in 1 .. n |-> i - 1]

\* the counts with every point of an edge, its ends included, given to it
HexDofCountsWholeEdge(order) ==
  [vtx |-> 1, edg |-> order + 1, fac |-> (order - 1) * (order - 1),
   vol |-> (order - 1) * (order - 1) * (order - 1)]

\* mNumDofVtx, mNumDofEdg, mNumDofFac, mNumDofVol of a hexahedron
HexDofCounts(order) ==
  [vtx |-> 1, edg |-> order - 1, fac |-> (order - 1) * (order - 1),
   vol |-> (order - 1) * (order - 1) * (order - 1)]

\* Hexahedra::Hexahedra for an order the constructor accepts
Hexahedra(order, wgt, grd) ==
  LET n == order + 1
  IN  [kind |-> "Hexahedra", mPlyOrd |-> order,
       mNumDofVtx |-> HexDofCounts(order).vtx,
       mNumDofEdg |-> HexDofCounts(order).edg,
       mNumDofFac |-> HexDofCounts(order).fac,
       mNumDofVol |-> HexDofCounts(order).vol,
       mNumIntPtsR |-> n,
       mNumIntPnt |-> n * n * n,
       mIntWgtR |-> wgt, mGrd |-> grd,
       mClsMap |-> LinSpaced(n * n * n)]

\* QuadNew::QuadNew for an order with generated tables
QuadNew(order, wgt, grd) ==
  LET n == order + 1
  IN  [kind |-> "QuadNew", mPlyOrd |-> order,
       mNumDofVtx |-> 1,
       mNumDofEdg |-> order - 1,
       mNumDofFac |-> (order - 1) * (order - 1),
       mNumDofVol |-> 0,
       mNumIntPtsR |-> n,
       mNumIntPnt |-> n * n,
       mIntWgtR |-> wgt, mGrd |-> grd,
       mClsMap |-> <<>>]

\* SquareAcousticOrderFour::SquareAcousticOrderFour
SquareAcousticOrderFour(order) ==
  [kind |-> "SquareAcousticOrderFour", mPlyOrd |-> order,
   mNumDofVtx |-> 1,
   mNumDofEdg |-> order - 1,
   mNumDofFac |-> (order - 1) * (order - 1),
   mNumDofVol |-> 0,
   mNumIntPtsR |-> 5,
   mNumIntPnt |-> 25,
   mIntWgtR |-> <<>>, mGrd |-> <<>>,
   mClsMap |-> << 6, 13, 22, 3, 15,
                  7, 16, 23, 2, 20,
                  8, 17, 19, 1, 24,
                  11, 18, 14, 5, 4,
                  12, 21, 9, 10, 0 >>]

NoKernel == [fn |-> "none", input |-> <<>>, output |-> <<>>]

\* construction of a hexahedron
ConstructHexahedra ==
  /\ elm.kind = "none"
  /\ \E order \in Orders :
       IF "error" \in HexahedraCtor(order)
       THEN elm' = [kind |-> "error"]
       ELSE \E wgt \in WeightTables(order + 1), grd \in GradTables(order + 1) :
              elm' = Hexahedra(order, wgt, grd)
  /\ elmOp' = NoKernel
  /\ UNCHANGED elOthers

\* construction of a quadrilateral
ConstructQuadNew ==
  /\ elm.kind = "none"
  /\ \E order \in 1 .. QuadMaxOrder :
       \E wgt \in WeightTables(order + 1), grd \in GradTables(order + 1) :
         elm' = QuadNew(order, wgt, grd)
  /\ elmOp' = NoKernel
  /\ UNCHANGED elOthers

\* construction of the order-4 square
ConstructSquareAcousticOrderFour ==
  /\ elm.kind = "none"
  /\ elm' = SquareAcousticOrderFour(4)
  /\ elmOp' = NoKernel
  /\ UNCHANGED elOthers

(***************************************************************************)
(* Kernels of the hexahedron.  A vector over the integration points is a   *)
(* function on 0 .. P-1, point (r, s, t) having the index r + s*n + t*n*n. *)
(* mIntWgtS and mIntWgtT are set by the constructor from the same call as  *)
(* mIntWgtR and hold the same table.  The element is a cube with vertices  *)
(* at +-scale (scale 1 is the reference hexahedron), for which HexP1 gives *)
(* the inverse Jacobian 1/scale times the identity.  A kernel reads only   *)
(* members set by the constructor and overwrites its work array, so one    *)
(* call is run on each constructed element.                                *)
(***************************************************************************)
\* the sum of f[lo] .. f[hi]
RECURSIVE RSum(_, _, _)
RSum(f, lo, hi) ==
  IF lo > hi THEN RZero
  ELSE IF lo = hi THEN f[lo]
  ELSE LET mid == (lo + hi) \div 2
       IN  RAdd(RSum(f, lo, mid), RSum(f, mid + 1, hi))

Scales == {1, 2}

\* values of the n one-dimensional Lagrange polynomials at a reference
\* coordinate: at each node, and at one coordinate between the nodes
LagrangeVals(n) ==
  { [i \in 0 .. (n - 1) |-> IF i = k THEN ROne ELSE RZero] : k \in 0 .. (n - 1) }
  \cup (CASE n = 2 -> { [i \in 0 .. 1 |-> RHalf] }
          [] n = 3 -> { [i \in 0 .. 2 |->
                           CASE i = 0 -> <<-1, 8>> [] i = 1 -> <<3, 4>>
                             [] i = 2 -> <<3, 8>>] }
          [] n = 4 -> { [i \in 0 .. 3 |->
                           IF i \in {0, 3} THEN <<-1, 8>> ELSE <<5, 8>>] }
          [] OTHER -> {})

\* interpolate_orderN_hex: the tensor product of the 1D values
interpolate_hex(a, b, c, n) ==
  [p \in 0 .. (n * n * n - 1) |->
     RMul(a[p % n], RMul(b[(p \div n) % n], c[p \div (n * n)]))]

inverseJacobianAtPoint(scale) ==
  [detJ |-> RInt(scale * scale * scale), invJ |-> Rat(1, scale)]

faceJacobianAtPoint(scale) == RInt(scale * scale)

getDeltaFunctionCoefficients(e, a, b, c, scale) ==
  LET n == e.mNumIntPtsR
      w == e.mIntWgtR
      detJac == inverseJacobianAtPoint(scale).detJ
      mParWork == interpolate_hex(a, b, c, n)
  IN  [p \in DOMAIN mParWork |->
         LET den == RMul(RMul(w[p % n], w[(p \div n) % n]),
                         RMul(w[p \div (n * n)], detJac))
         IN  Rat(mParWork[p][1] * den[2], mParWork[p][2] * den[1])]

\* The integration with the weight of r_ind in the place of that of t_ind.
applyTestAndIntegrateWeightR(e, f, scale) ==
  LET n == e.mNumIntPtsR
      w == e.mIntWgtR
      detJac == inverseJacobianAtPoint(scale).detJ
  IN  [p \in 0 .. (e.mNumIntPnt - 1) |->
         RMul(RMul(f[p], detJac),
              RMul(w[p % n], RMul(w[(p \div n) % n], w[p % n])))]

applyTestAndIntegrate(e, f, scale) ==
  LET n == e.mNumIntPtsR
      w == e.mIntWgtR
      detJac == inverseJacobianAtPoint(scale).detJ
  IN  [p \in 0 .. (e.mNumIntPnt - 1) |->
         RMul(RMul(f[p], detJac),
              RMul(w[p % n], RMul(w[(p \div n) % n], w[p \div (n * n)])))]

\* The gradient with mGrd(i, r_ind) in the place of mGrd(r_ind, i).
computeGradientTransposed(e, field, scale) ==
  LET n == e.mNumIntPtsR
      invJac == inverseJacobianAtPoint(scale).invJ
      D(i, j) == RInt(e.mGrd[j][i])
  IN  [p \in 0 .. (e.mNumIntPnt - 1) |->
         LET r == p % n
             s == (p \div n) % n
             t == p \div (n * n)
         IN  << RMul(invJac, RSum([i \in 0 .. (n - 1) |->
                  RMul(D(r, i), field[i + s * n + t * n * n])], 0, n - 1)),
                RMul(invJac, RSum([i \in 0 .. (n - 1) |->
                  RMul(D(s, i), field[r + i * n + t * n * n])], 0, n - 1)),
                RMul(invJac, RSum([i \in 0 .. (n - 1) |->
                  RMul(D(t, i), field[r + s * n + i * n * n])], 0, n - 1)) >>]

computeGradient(e, field, scale) ==
  LET n == e.mNumIntPtsR
      invJac == inverseJacobianAtPoint(scale).invJ
      D(i, j) == RInt(e.mGrd[i][j])
  IN  [p \in 0 .. (e.mNumIntPnt - 1) |->
         LET r == p % n
             s == (p \div n) % n
             t == p \div (n * n)
         IN  << RMul(invJac, RSum([i \in 0 .. (n - 1) |->
                  RMul(D(r, i), field[i + s * n + t * n * n])], 0, n - 1)),
                RMul(invJac, RSum([i \in 0 .. (n - 1) |->
                  RMul(D(s, i), field[r + i * n + t * n * n])], 0, n - 1)),
                RMul(invJac, RSum([i \in 0 .. (n - 1) |->
                  RMul(D(t, i), field[r + s * n + i * n * n])], 0, n - 1)) >>]

\* Every face read with the starts and strides of the bottom face.
getDofsOnFaceAsBottom(face, n) == [k \in 0 .. (n * n - 1) |-> k]

\* face_dofs[jcnt + icnt * num_r]; s_sta is 0 on every face
getDofsOnFace(face, n) ==
  LET c == CASE face = 0 -> [r_sta |-> 0, r_str |-> 1, s_str |-> n]
             [] face = 1 -> [r_sta |-> n * n * n - n * n, r_str |-> 1, s_str |-> n]
             [] face = 2 -> [r_sta |-> 0, r_str |-> 1, s_str |-> n * n]
             [] face = 3 -> [r_sta |-> n * n - 1, r_str |-> 0 - 1, s_str |-> n * n]
             [] face = 4 -> [r_sta |-> n - 1, r_str |-> n, s_str |-> n * n]
             [] face = 5 -> [r_sta |-> n * (n - 1), r_str |-> 0 - n, s_str |-> n * n]
  IN  [k \in 0 .. (n * n - 1) |->
         (c.r_sta + (k % n) * c.r_str) + ((k \div n) * c.s_str)]

\* mParWork is zeroed, then written at face_closure[i] for i = r_ind + s_ind*n
applyTestAndIntegrateEdge(e, f, edg, scale) ==
  LET n == e.mNumIntPtsR
      w == e.mIntWgtR
      detJac == faceJacobianAtPoint(scale)
      face_closure == getDofsOnFace(edg, n)
      written(p) == {i \in DOMAIN face_closure : face_closure[i] = p}
  IN  [p \in 0 .. (e.mNumIntPnt - 1) |->
         IF written(p) = {} THEN RZero
         ELSE LET i == CHOOSE i \in written(p) : \A j \in written(p) : j <= i
              IN  RMul(RMul(f[p], detJac), RMul(w[i % n], w[i \div n]))]

\* The integral with the rows of mGrd in the place of its columns.
applyGradTestAndIntegrateRows(e, F, scale) ==
  LET n == e.mNumIntPtsR
      w == e.mIntWgtR
      jac == inverseJacobianAtPoint(scale)
      D(i, j) == RInt(e.mGrd[j][i])
      ind(r, s, t) == r + s * n + t * n * n
      fxyz == [p \in DOMAIN F |-> [c \in 1 .. 3 |-> RMul(jac.invJ, F[p][c])]]
  IN  [p \in 0 .. (e.mNumIntPnt - 1) |->
         LET r == p % n
             s == (p \div n) % n
             t == p \div (n * n)
             dphi_r_dfx == RSum([i \in 0 .. (n - 1) |->
                 RMul(RMul(jac.detJ, fxyz[ind(i, s, t)][1]),
                      RMul(D(i, r), w[i]))], 0, n - 1)
             dphi_s_dfy == RSum([i \in 0 .. (n - 1) |->
                 RMul(RMul(jac.detJ, fxyz[ind(r, i, t)][2]),
                      RMul(D(i, s), w[i]))], 0, n - 1)
             dphi_t_dfz == RSum([i \in 0 .. (n - 1) |->
                 RMul(RMul(jac.detJ, fxyz[ind(r, s, i)][3]),
                      RMul(D(i, t), w[i]))], 0, n - 1)
         IN  RAdd(RAdd(RMul(dphi_r_dfx, RMul(w[s], w[t])),
                       RMul(dphi_s_dfy, RMul(w[r], w[t]))),
                  RMul(dphi_t_dfz, RMul(w[r], w[s])))]

\* lr = mGrd.col(r_ind), so lr[i] = mGrd(i, r_ind)
applyGradTestAndIntegrate(e, F, scale) ==
  LET n == e.mNumIntPtsR
      w == e.mIntWgtR
      jac == inverseJacobianAtPoint(scale)
      D(i, j) == RInt(e.mGrd[i][j])
      ind(r, s, t) == r + s * n + t * n * n
      fxyz == [p \in DOMAIN F |-> [c \in 1 .. 3 |-> RMul(jac.invJ, F[p][c])]]
  IN  [p \in 0 .. (e.mNumIntPnt - 1) |->
         LET r == p % n
             s == (p \div n) % n
             t == p \div (n * n)
             dphi_r_dfx == RSum([i \in 0 .. (n - 1) |->
                 RMul(RMul(jac.detJ, fxyz[ind(i, s, t)][1]),
                      RMul(D(i, r), w[i]))], 0, n - 1)
             dphi_s_dfy == RSum([i \in 0 .. (n - 1) |->
                 RMul(RMul(jac.detJ, fxyz[ind(r, i, t)][2]),
                      RMul(D(i, s), w[i]))], 0, n - 1)
             dphi_t_dfz == RSum([i \in 0 .. (n - 1) |->
                 RMul(RMul(jac.detJ, fxyz[ind(r, s, i)][3]),
                      RMul(D(i, t), w[i]))], 0, n - 1)
         IN  RAdd(RAdd(RMul(dphi_r_dfx, RMul(w[s], w[t])),
                       RMul(dphi_s_dfy, RMul(w[r], w[t]))),
                  RMul(dphi_t_dfz, RMul(w[r], w[s])))]

\* the vector with 1 at one point
UnitVec(P, ind) == [p \in 0 .. (P - 1) |-> IF p = ind THEN ROne ELSE RZero]

\* inputs of applyGradTestAndIntegrate: 1 in all three components at one
\* point, and a field that differs from point to point
GradFields(P) ==
  { [p \in 0 .. (P - 1) |->
       IF p = q THEN <<ROne, ROne, ROne>> ELSE <<RZero, RZero, RZero>>] :
       q \in 0 .. (P - 1) }
  \cup { [p \in 0 .. (P - 1) |-> <<RInt(p + 1), RInt(2 * p), RInt(1 - p)>>] }

KernelReady ==
  /\ elm.kind = "Hexahedra"
  /\ elm.mPlyOrd <= MaxKernelOrder
  /\ elmOp.fn = "none"

\* applyTestAndIntegrate(getDeltaFunctionCoefficients(pnt))
CallApplyTestAndIntegrate ==
  /\ KernelReady
  /\ \E a, b, c \in LagrangeVals(elm.mNumIntPtsR), scale \in Scales :
       elmOp' = [fn |-> "applyTestAndIntegrate", scale |-> scale,
                 input |-> interpolate_hex(a, b, c, elm.mNumIntPtsR),
                 output |-> applyTestAndIntegrate(elm,
                     getDeltaFunctionCoefficients(elm, a, b, c, scale), scale)]
  /\ UNCHANGED elm
  /\ UNCHANGED elOthers

\* computeGradient of a unit vector
CallComputeGradient ==
  /\ KernelReady
  /\ \E ind \in 0 .. (elm.mNumIntPnt - 1), scale \in Scales :
       elmOp' = [fn |-> "computeGradient", scale |-> scale, input |-> ind,
                 output |-> computeGradient(elm, UnitVec(elm.mNumIntPnt, ind),
                                            scale)]
  /\ UNCHANGED elm
  /\ UNCHANGED elOthers

\* applyTestAndIntegrateEdge of a unit vector on one face
CallApplyTestAndIntegrateEdge ==
  /\ KernelReady
  /\ \E p \in 0 .. (elm.mNumIntPnt - 1), edg \in 0 .. 5, scale \in Scales :
       elmOp' = [fn |-> "applyTestAndIntegrateEdge", scale |-> scale,
                 input |-> [p |-> p, edg |-> edg],
                 output |-> applyTestAndIntegrateEdge(elm,
                     UnitVec(elm.mNumIntPnt, p), edg, scale)]
  /\ UNCHANGED elm
  /\ UNCHANGED elOthers

CallApplyGradTestAndIntegrate ==
  /\ KernelReady
  /\ \E F \in GradFields(elm.mNumIntPnt), scale \in Scales :
       elmOp' = [fn |-> "applyGradTestAndIntegrate", scale |-> scale,
                 input |-> F,
                 output |-> applyGradTestAndIntegrate(elm, F, scale)]
  /\ UNCHANGED elm
  /\ UNCHANGED elOthers

\* construction of a triangle
ConstructTriangle ==
  /\ elm.kind = "none"
  /\ elm' = [kind |-> "Triangle"]
  /\ elmOp' = NoKernel
  /\ UNCHANGED elOthers

\* Triangle::recordField: prints and calls exit(1)
CallRecordField ==
  /\ elm.kind = "Triangle" /\ elmOp.fn = "none"
  /\ elmOp' = [fn |-> "recordField", input |-> <<>>, output |-> <<>>,
                exit |-> 1]
  /\ UNCHANGED elm
  /\ UNCHANGED elOthers

\* Triangle::interpolateFieldAtPoint: prints and calls exit(1)
CallInterpolateFieldAtPoint ==
  /\ elm.kind = "Triangle" /\ elmOp.fn = "none"
  /\ elmOp' = [fn |-> "interpolateFieldAtPoint", input |-> <<>>,
                output |-> <<>>, exit |-> 1]
  /\ UNCHANGED elm
  /\ UNCHANGED elOthers

\* A vertex lookup without the default branch.
getDofsOnVtxUnchecked(vtx, n) == [thrown |-> FALSE, dofs |-> <<0>>]

\* Hexahedra::getDofsOnVtx; n = mNumIntPtsR = mNumIntPtsS = mNumIntPtsT
getDofsOnVtx(vtx, n) ==
  IF vtx \notin 0 .. 7 THEN [thrown |-> TRUE, dofs |-> <<>>]
  ELSE [thrown |-> FALSE, dofs |-> <<
    CASE vtx = 0 -> 0
      [] vtx = 1 -> n * (n - 1)
      [] vtx = 2 -> n * n - 1
      [] vtx = 3 -> n - 1
      [] vtx = 4 -> n * n * (n - 1)
      [] vtx = 5 -> n * (n * (n - 1) + 1) - 1
      [] vtx = 6 -> n * n * n - 1
      [] vtx = 7 -> n * n * n - n >>]

\* Hexahedra::getDofsOnEdge: edge_dofs[icnt] = start + icnt * stride
getDofsOnEdge(edge, n) ==
  IF edge \notin 0 .. 11 THEN [thrown |-> TRUE, dofs |-> <<>>]
  ELSE LET c == CASE edge = 0 -> [start |-> 0, stride |-> n]
               [] edge = 1 -> [start |-> n * (n - 1), stride |-> 1]
               [] edge = 2 -> [start |-> n - 1, stride |-> n]
               [] edge = 3 -> [start |-> 0, stride |-> 1]
               [] edge = 4 -> [start |-> n * n * (n - 1), stride |-> 1]
               [] edge = 5 -> [start |-> n * (n * (n - 1) + 1) - 1, stride |-> n]
               [] edge = 6 -> [start |-> n * n * n - n, stride |-> 1]
               [] edge = 7 -> [start |-> n * n * (n - 1), stride |-> n]
               [] edge = 8 -> [start |-> n - 1, stride |-> n * n]
               [] edge = 9 -> [start |-> 0, stride |-> n * n]
               [] edge = 10 -> [start |-> n * (n - 1), stride |-> n * n]
               [] edge = 11 -> [start |-> n * n - 1, stride |-> n * n]
       IN  [thrown |-> FALSE,
            dofs |-> [icnt \in 0 .. (n - 1) |-> c.start + icnt * c.stride]]

\* Hexahedra::getDofsOnFace with the default branch of its switch
getDofsOnFaceOrThrow(face, n) ==
  IF face \notin 0 .. 5 THEN [thrown |-> TRUE, dofs |-> <<>>]
  ELSE [thrown |-> FALSE, dofs |-> getDofsOnFace(face, n)]

\* the ids the lookups are called with: those of a hexahedron and some outside
LookupIds == (0 - 2) .. 13

HexReady == elm.kind = "Hexahedra" /\ elmOp.fn = "none"

CallGetDofsOnVtx ==
  /\ HexReady
  /\ \E vtx \in LookupIds :
       LET res == getDofsOnVtx(vtx, elm.mNumIntPtsR) IN
       elmOp' = [fn |-> "getDofsOnVtx", input |-> vtx, output |-> res.dofs,
                 thrown |-> res.thrown]
  /\ UNCHANGED elm
  /\ UNCHANGED elOthers

CallGetDofsOnEdge ==
  /\ HexReady
  /\ \E edge \in LookupIds :
       LET res == getDofsOnEdge(edge, elm.mNumIntPtsR) IN
       elmOp' = [fn |-> "getDofsOnEdge", input |-> edge, output |-> res.dofs,
                 thrown |-> res.thrown]
  /\ UNCHANGED elm
  /\ UNCHANGED elOthers

CallGetDofsOnFace ==
  /\ HexReady
  /\ \E face \in LookupIds :
       LET res == getDofsOnFaceOrThrow(face, elm.mNumIntPtsR) IN
       elmOp' = [fn |-> "getDofsOnFace", input |-> face, output |-> res.dofs,
                 thrown |-> res.thrown]
  /\ UNCHANGED elm
  /\ UNCHANGED elOthers

\* the material of an element at its integration points (one value each,
\* the same at every point): RHO, VPV, VPH, VSV, VSH, ETA
Materials ==
  { [RHO |-> 1, VPV |-> 1, VPH |-> 2, VSV |-> 1, VSH |-> 1, ETA |-> 1],
    [RHO |-> 1, VPV |-> 3, VPH |-> 2, VSV |-> 1, VSH |-> 1, ETA |-> 2] }

\* Elastic3D::attachMaterialProperties: the coefficients from the parameters
Elastic3DCoefficients(par) ==
  LET c11 == par.RHO * par.VPH * par.VPH
      c44 == par.RHO * par.VSV * par.VSV
      c66 == par.RHO * par.VSH * par.VSH
  IN  [mc11 |-> RInt(c11), mc22 |-> RInt(c11),
       mc33 |-> RInt(par.RHO * par.VPV * par.VPV),
       mc44 |-> RInt(c44), mc55 |-> RInt(c44), mc66 |-> RInt(c66),
       mc12 |-> RInt(c11 - 2 * c66),
       mc13 |-> RInt(par.ETA * (c11 - 2 * c44)),
       mc23 |-> RInt(par.ETA * (c11 - 2 * c44))]

RAdd3(x, y, z) == RAdd(RAdd(x, y), z)

\* The stress with mc13 in the place of mc12 in the second row.
computeStressSecondRowOff(c, strain) ==
  << RAdd3(RMul(c.mc11, strain[1]), RMul(c.mc12, strain[2]), RMul(c.mc13, strain[3])),
     RAdd3(RMul(c.mc13, strain[1]), RMul(c.mc22, strain[2]), RMul(c.mc23, strain[3])),
     RAdd3(RMul(c.mc13, strain[1]), RMul(c.mc23, strain[2]), RMul(c.mc33, strain[3])),
     RMul(c.mc44, strain[4]), RMul(c.mc55, strain[5]), RMul(c.mc66, strain[6]) >>

\* Elastic3D::computeStress at one integration point; columns 0..5 of the
\* source are entries 1..6
computeStress(c, strain) ==
  << RAdd3(RMul(c.mc11, strain[1]), RMul(c.mc12, strain[2]), RMul(c.mc13, strain[3])),
     RAdd3(RMul(c.mc12, strain[1]), RMul(c.mc22, strain[2]), RMul(c.mc23, strain[3])),
     RAdd3(RMul(c.mc13, strain[1]), RMul(c.mc23, strain[2]), RMul(c.mc33, strain[3])),
     RMul(c.mc44, strain[4]), RMul(c.mc55, strain[5]), RMul(c.mc66, strain[6]) >>

\* Elastic3D::computeStiffnessTerm: the strain from the three gradients, the
\* stress, and for each displacement component the three stress columns
\* handed to applyGradTestAndIntegrate
Elastic3D_computeStiffnessTerm(e, c, u, scale) ==
  LET grad_ux == computeGradient(e, u[1], scale)
      grad_uy == computeGradient(e, u[2], scale)
      grad_uz == computeGradient(e, u[3], scale)
      pts == 0 .. (e.mNumIntPnt - 1)
      strain == [p \in pts |->
                   << grad_ux[p][1], grad_uy[p][2], grad_uz[p][3],
                      RAdd(grad_uy[p][3], grad_uz[p][2]),
                      RAdd(grad_ux[p][3], grad_uz[p][1]),
                      RAdd(grad_ux[p][2], grad_uy[p][1]) >>]
      stress == [p \in pts |-> computeStress(c, strain[p])]
      stress_col ==
        << [p \in pts |-> <<stress[p][1], stress[p][6], stress[p][5]>>],
           [p \in pts |-> <<stress[p][6], stress[p][2], stress[p][4]>>],
           [p \in pts |-> <<stress[p][5], stress[p][4], stress[p][3]>>] >>
  IN  [strain |-> strain, stress |-> stress, stress_col |-> stress_col,
       stiff |-> [i \in 1 .. 3 |->
                    applyGradTestAndIntegrate(e, stress_col[i], scale)]]

\* displacements: one component varying from point to point and the other
\* two at rest, or all three varying
Displacements(P) ==
  LET zero == [p \in 0 .. (P - 1) |-> RZero]
      ramp(a, b) == [p \in 0 .. (P - 1) |-> RInt((a * p * p + b) % 3)]
  IN  { <<ramp(1, 0), zero, zero>>, <<zero, ramp(2, 1), zero>>,
        <<zero, zero, ramp(1, 2)>>, <<ramp(1, 0), ramp(2, 1), ramp(3, 2)>> }

CallComputeStiffnessTerm ==
  /\ KernelReady
  /\ \E par \in Materials, u \in Displacements(elm.mNumIntPnt), scale \in Scales :
       LET c == Elastic3DCoefficients(par)
           res == Elastic3D_computeStiffnessTerm(elm, c, u, scale)
       IN  elmOp' = [fn |-> "computeStiffnessTerm", scale |-> scale,
                     input |-> [c |-> c, u |-> u],
                     stress |-> res.stress, stress_col |-> res.stress_col,
                     output |-> res.stiff]
  /\ UNCHANGED elm
  /\ UNCHANGED elOthers

ElementInit ==
  /\ elm = [kind |-> "none"]
  /\ elmOp = NoKernel
  /\ NewmarkIdle /\ DriverIdle /\ DirichletIdle /\ AttachIdle /\ OrderIdle
  /\ OptionsIdle /\ LoggerIdle /\ SetupIdle /\ OptionsObjectIdle

ElementNext ==
  \/ ConstructHexahedra
  \/ ConstructQuadNew
  \/ ConstructSquareAcousticOrderFour
  \/ CallApplyTestAndIntegrate
  \/ CallComputeGradient
  \/ CallApplyTestAndIntegrateEdge
  \/ CallApplyGradTestAndIntegrate
  \/ ConstructTriangle
  \/ CallRecordField
  \/ CallInterpolateFieldAtPoint
  \/ CallGetDofsOnVtx
  \/ CallGetDofsOnEdge
  \/ CallGetDofsOnFace
  \/ CallComputeStiffnessTerm

SpecElement == ElementInit /\ [][ElementNext]_vars

C12_DofCountsPartitionPoints ==
  LET N == elm.mPlyOrd
  IN  /\ elm.kind = "Hexahedra" =>
           /\ elm.mNumDofVtx = 1 /\ elm.mNumDofEdg = N - 1
           /\ elm.mNumDofFac = (N - 1) * (N - 1)
           /\ elm.mNumDofVol = (N - 1) * (N - 1) * (N - 1)
           /\ 8 * elm.mNumDofVtx + 12 * elm.mNumDofEdg + 6 * elm.mNumDofFac
                + elm.mNumDofVol = (N + 1) * (N + 1) * (N + 1)
           /\ elm.mNumIntPnt = (N + 1) * (N + 1) * (N + 1)
      /\ elm.kind = "QuadNew" =>
           /\ elm.mNumDofVtx = 1 /\ elm.mNumDofEdg = N - 1
           /\ elm.mNumDofFac = (N - 1) * (N - 1)
           /\ 4 * elm.mNumDofVtx + 4 * elm.mNumDofEdg + elm.mNumDofFac
                = (N + 1) * (N + 1)
           /\ elm.mNumIntPnt = (N + 1) * (N + 1)

C12_WitnessHexOrder3 ==
  /\ elm.kind = "Hexahedra" /\ elm.mPlyOrd = 3
  /\ elm.mNumDofEdg = 2 /\ elm.mNumDofFac = 4 /\ elm.mNumDofVol = 8
  /\ elm.mNumIntPnt = 64

\* C17: applyTestAndIntegrate(getDeltaFunctionCoefficients(pnt)) holds at
\* every integration point the value of the Lagrange interpolation at pnt
\* (the division and the multiplication by the weights and by the Jacobian
\* cancel), and its entries sum to 1.
C17_DeltaIntegratesToInterpolation ==
  elmOp.fn = "applyTestAndIntegrate" =>
    /\ elmOp.output = elmOp.input
    /\ RSum(elmOp.output, 0, elm.mNumIntPnt - 1) = ROne

\* order 2, a delta between the nodes of a cube of twice the reference size
C17_WitnessInteriorPoint ==
  /\ elmOp.fn = "applyTestAndIntegrate"
  /\ elm.mPlyOrd = 2 /\ elmOp.scale = 2
  /\ elm.mIntWgtR[0] # elm.mIntWgtR[1]
  /\ elmOp.output[0] = <<-1, 512>>

\* C18: on the reference hexahedron, computeGradient of the unit vector of
\* the basis function (r, s, t) has at the point (rp, sp, tp) the
\* r-component D[rp][r] if s = sp and t = tp and 0 otherwise, the
\* s-component D[sp][s] if r = rp and t = tp and 0 otherwise, and the
\* t-component D[tp][t] if r = rp and s = sp and 0 otherwise, D being mGrd.
C18_GradientOfUnitVectorIsD ==
  (elmOp.fn = "computeGradient" /\ elmOp.scale = 1) =>
    LET n == elm.mNumIntPtsR
        r == elmOp.input % n
        s == (elmOp.input \div n) % n
        t == elmOp.input \div (n * n)
    IN  \A p \in 0 .. (elm.mNumIntPnt - 1) :
          LET rp == p % n
              sp == (p \div n) % n
              tp == p \div (n * n)
          IN  elmOp.output[p] =
                << IF s = sp /\ t = tp THEN RInt(elm.mGrd[rp][r]) ELSE RZero,
                   IF r = rp /\ t = tp THEN RInt(elm.mGrd[sp][s]) ELSE RZero,
                   IF r = rp /\ s = sp THEN RInt(elm.mGrd[tp][t]) ELSE RZero >>

\* order 2, basis function (1, 0, 2), seen from the point (0, 0, 2)
C18_WitnessOffDiagonal ==
  /\ elmOp.fn = "computeGradient" /\ elmOp.scale = 1
  /\ elm.mPlyOrd = 2 /\ elmOp.input = 19
  /\ elmOp.output[18] = <<RInt(elm.mGrd[0][1]), RZero, RZero>>
  /\ elm.mGrd[0][1] # 0 /\ elm.mGrd[0][1] # elm.mGrd[1][0]

\* the plane of a face: 0 is tp = 0, 1 is tp = N, 2 is sp = 0, 3 is sp = N,
\* 4 is rp = N, 5 is rp = 0
OnFace(face, p, n) ==
  LET rp == p % n
      sp == (p \div n) % n
      tp == p \div (n * n)
  IN  CASE face = 0 -> tp = 0 [] face = 1 -> tp = n - 1
        [] face = 2 -> sp = 0 [] face = 3 -> sp = n - 1
        [] face = 4 -> rp = n - 1 [] face = 5 -> rp = 0

\* C19: on the reference hexahedron, applyTestAndIntegrateEdge of the
\* indicator of the point p is zero everywhere unless p lies on the face,
\* and then its only non-zero entry is at p and is the product of the two
\* weights of the in-face indices of p; getDofsOnFace returns (N+1)^2
\* pairwise distinct indices in range, all of them on the plane of the face.
C19_FaceIntegralOfIndicator ==
  (elmOp.fn = "applyTestAndIntegrateEdge" /\ elmOp.scale = 1) =>
    LET n == elm.mNumIntPtsR
        w == elm.mIntWgtR
        p == elmOp.input.p
        edg == elmOp.input.edg
        rp == p % n
        sp == (p \div n) % n
        tp == p \div (n * n)
        expected == CASE edg \in {0, 1} -> RMul(w[rp], w[sp])
                      [] edg \in {2, 3} -> RMul(w[rp], w[tp])
                      [] edg \in {4, 5} -> RMul(w[sp], w[tp])
        dofs == getDofsOnFace(edg, n)
    IN  /\ \A q \in 0 .. (elm.mNumIntPnt - 1) :
             elmOp.output[q] =
               IF q = p /\ OnFace(edg, p, n) THEN expected ELSE RZero
        /\ DOMAIN dofs = 0 .. (n * n - 1)
        /\ \A i, j \in DOMAIN dofs : i # j => dofs[i] # dofs[j]
        /\ \A i \in DOMAIN dofs :
             dofs[i] \in 0 .. (elm.mNumIntPnt - 1) /\ OnFace(edg, dofs[i], n)

\* order 2, the back face, which getDofsOnFace walks against r, with weights
\* that differ from node to node: the point (0, 2, 1)
C19_WitnessBackFace ==
  /\ elmOp.fn = "applyTestAndIntegrateEdge" /\ elmOp.scale = 1
  /\ elm.mPlyOrd = 2 /\ elmOp.input = [p |-> 15, edg |-> 3]
  /\ elm.mIntWgtR[0] # elm.mIntWgtR[1]
  /\ elmOp.output[15] = RMul(elm.mIntWgtR[0], elm.mIntWgtR[1])

RowsSumToZero ==
  \A i \in DOMAIN elm.mGrd :
    RSum([j \in DOMAIN elm.mGrd[i] |-> RInt(elm.mGrd[i][j])],
         0, elm.mNumIntPtsR - 1) = RZero

\* C20: when every row of mGrd sums to zero, the entries of
\* applyGradTestAndIntegrate(F) sum to zero, for the indicator of one point
\* in all three components and for every other input F.
C20_GradTestIntegratesToZero ==
  (elmOp.fn = "applyGradTestAndIntegrate" /\ RowsSumToZero) =>
    RSum(elmOp.output, 0, elm.mNumIntPnt - 1) = RZero

\* order 2, twice the reference size, an input that differs from point to
\* point, and an output that is not zero
C20_WitnessVaryingField ==
  /\ elmOp.fn = "applyGradTestAndIntegrate" /\ RowsSumToZero
  /\ elm.mPlyOrd = 2 /\ elmOp.scale = 2
  /\ elmOp.input[3] = <<RInt(4), RInt(6), RInt(-2)>>
  /\ \E p \in DOMAIN elmOp.output : elmOp.output[p] # RZero
  /\ RSum(elmOp.output, 0, elm.mNumIntPnt - 1) = RZero

(***************************************************************************)
(* Options::setOptions: the command line is read flag by flag; a missing   *)
(* or unacceptable option throws std::runtime_error, which ends the call.  *)
(* optArgs is the command line, optState the progress of the call.         *)
(* The HDF5 source file is taken to be well formed apart from its root     *)
(* attribute "type"; the inline source arrays are either all of length     *)
(* --number-of-sources or not.                                             *)
(***************************************************************************)
MandatoryFlags ==
  << "--mesh-file", "--model-file", "--polynomial-order", "--dimension",
     "--duration", "--time-step" >>

SourceTypeVals == {"ricker", "file", "other"}

\* PetscOptionsGetBool: the flag is absent, or present with a value
CommandLines ==
  [ testing : {"absent", "true", "false"},
    static : BOOLEAN,
    flags : SUBSET {MandatoryFlags[i] : i \in 1 .. Len(MandatoryFlags)},
    sourceFile : {"absent", "unreadable"} \cup SourceTypeVals,
    numSrc : 0 .. 1,
    sourceType : {"absent"} \cup SourceTypeVals,
    arraysComplete : BOOLEAN ]

\* lines 20-33: testing and static_problem are TRUE when the flag is set
OptSetTesting ==
  /\ optState.pc = "start"
  /\ optState' = [optState EXCEPT !.pc = "mandatory",
                                  !.testing = (optArgs.testing # "absent"),
                                  !.static_problem = optArgs.static]
  /\ UNCHANGED optArgs
  /\ UNCHANGED optOthers

\* is the error for a missing flag suppressed?  (lines 51-96)
Suppressed(flag, testing, static_problem) ==
  IF flag \in {"--duration", "--time-step"}
    THEN testing \/ static_problem
    ELSE testing

\* lines 44-97: the first missing flag whose error is not suppressed throws
OptSetMandatory ==
  /\ optState.pc = "mandatory"
  /\ LET missing == { i \in 1 .. Len(MandatoryFlags) :
                        /\ MandatoryFlags[i] \notin optArgs.flags
                        /\ ~ Suppressed(MandatoryFlags[i], optState.testing,
                                        optState.static_problem) }
     IN  IF missing = {}
           THEN optState' = [optState EXCEPT !.pc = "sources"]
           ELSE LET first == CHOOSE i \in missing : \A j \in missing : i <= j
                IN  optState' = [optState EXCEPT !.pc = "thrown",
                                   !.error = <<"not set", MandatoryFlags[first]>>]
  /\ UNCHANGED optArgs
  /\ UNCHANGED optOthers

\* lines 156-162: the type check of the source file
FileTypeRejected(type) == ~ (type = "file") \/ ~ (type = "ricker")

\* lines 243-278: the type check of the inline specification
InlineTypeRejected(type) == ~ (type = "ricker")

\* lines 139-280
OptSetSources ==
  /\ optState.pc = "sources"
  /\ UNCHANGED optArgs
  /\ UNCHANGED optOthers
  /\ IF optArgs.sourceFile # "absent"
       THEN IF optArgs.sourceFile = "unreadable"
              THEN optState' = [optState EXCEPT !.pc = "thrown",
                                  !.error = <<"Can't open source file", "">>]
              ELSE IF FileTypeRejected(optArgs.sourceFile) /\ ~ optState.testing
                     THEN optState' = [optState EXCEPT !.pc = "thrown",
                            !.mSourceType = optArgs.sourceFile,
                            !.error = <<"not recognized", optArgs.sourceFile>>]
                     ELSE optState' = [optState EXCEPT !.pc = "done",
                            !.mSourceType = optArgs.sourceFile]
       ELSE IF optArgs.numSrc > 0
              THEN LET type == IF optArgs.sourceType # "absent"
                                 THEN optArgs.sourceType ELSE ""
                   IN  IF optArgs.sourceType = "absent" /\ ~ optState.testing
                         THEN optState' = [optState EXCEPT !.pc = "thrown",
                                !.error = <<"source type was not specified", "">>]
                       ELSE IF ~ optArgs.arraysComplete
                         THEN optState' = [optState EXCEPT !.pc = "thrown",
                                !.mSourceType = type,
                                !.error = <<"Incorrect number of source parameters", "">>]
                       ELSE IF InlineTypeRejected(type) /\ ~ optState.testing
                         THEN optState' = [optState EXCEPT !.pc = "thrown",
                                !.mSourceType = type,
                                !.error = <<"not recognized", type>>]
                       ELSE optState' = [optState EXCEPT !.pc = "done",
                                !.mSourceType = type]
              ELSE optState' = [optState EXCEPT !.pc = "done"]

OptionsInit ==
  /\ optArgs \in CommandLines
  /\ optState = [pc |-> "start", testing |-> FALSE, static_problem |-> FALSE,
                 mSourceType |-> "", error |-> <<"none", "">>]
  /\ NewmarkIdle /\ DriverIdle /\ DirichletIdle /\ AttachIdle /\ OrderIdle
  /\ ElementIdle /\ LoggerIdle /\ SetupIdle /\ OptionsObjectIdle

OptionsNext == OptSetTesting \/ OptSetMandatory \/ OptSetSources

SpecOptions == OptionsInit /\ [][OptionsNext]_vars

(***************************************************************************)
(* Claims about the options.                                               *)
(***************************************************************************)
MissingMandatory ==
  {MandatoryFlags[i] : i \in 1 .. Len(MandatoryFlags)} \ optArgs.flags

\* C13: once the mandatory flags have been read, the call has thrown
\* "Critical option ... not set" exactly when some mandatory flag is
\* missing and --testing was not given with the value true.
C13_SuppressedIffTestingTrue ==
  optState.pc \in {"sources", "done", "thrown"} =>
    ((optState.error[1] = "not set")
       <=> (MissingMandatory # {} /\ optArgs.testing # "true"))

\* C14: with testing off, a source file or an inline specification that
\* reaches the type check is accepted exactly when its type is ricker or
\* file, and rejected as "not recognized" otherwise.
C14_SourceTypeAcceptedIffKnown ==
  /\ (optState.pc \in {"done", "thrown"} /\ ~ optState.testing
        /\ optArgs.sourceFile \in SourceTypeVals
        /\ optState.error[1] # "not set") =>
       ((optState.pc = "done") <=> (optArgs.sourceFile \in {"ricker", "file"}))
  /\ (optState.pc \in {"done", "thrown"} /\ ~ optState.testing
        /\ optArgs.sourceFile = "absent" /\ optArgs.numSrc > 0
        /\ optArgs.sourceType \in SourceTypeVals /\ optArgs.arraysComplete
        /\ optState.error[1] # "not set") =>
       ((optState.pc = "done") <=> (optArgs.sourceType \in {"ricker", "file"}))

(***************************************************************************)
(* Further claims about Order2Newmark.                                     *)
(***************************************************************************)
FieldsOfPhysics(phys) ==
  CASE phys = "fluid" -> <<"u", "v", "a", "a_">>
    [] phys = "2delastic" ->
         <<"ux", "vx", "ax", "ax_", "uy", "vy", "ay", "ay_">>
    [] phys = "3delastic" ->
         <<"ux", "vx", "ax", "ax_", "uy", "vy", "ay", "ay_",
           "uz", "vz", "az", "az_">>
    [] OTHER -> <<>>

Supported == {"fluid", "2delastic", "3delastic"}

\* C21: once initializeGlobalDofs has run, it has raised an error and left
\* no field when the mesh has no physics or a physics other than fluid,
\* 2delastic, 3delastic; otherwise the fields are mi and, for each physics
\* of the mesh, the quadruple u,v,a,a_ (fluid), the x and y quadruples
\* (2delastic) or the x, y and z quadruples (3delastic), and for one
\* physics physicsToFields returns exactly that list.
C21_FieldsOfThePhysics ==
  nmPc # "new" =>
    IF physics = {} \/ ~ (physics \subseteq Supported)
    THEN /\ nmPc = "error" /\ fields = <<>>
         /\ physics # {} => ~ physicsToFields(physics).ok
    ELSE /\ nmPc # "error"
         /\ DOMAIN fields =
              {"mi"} \cup UNION { {FieldsOfPhysics(p)[i] :
                                     i \in 1 .. Len(FieldsOfPhysics(p))} :
                                  p \in physics }
         /\ \A p \in physics : physics = {p} =>
              physicsToFields(physics) =
                [ok |-> TRUE, names |-> FieldsOfPhysics(p)]

\* a 3D elastic mesh with its thirteen fields
C21_WitnessElastic3D ==
  /\ nmPc = "ready" /\ physics = {"3delastic"}
  /\ Cardinality(DOMAIN fields) = 13
  /\ "az_" \in DOMAIN fields

(***************************************************************************)
(* Further claims about elements.                                          *)
(***************************************************************************)
\* C22: no call of recordField or interpolateFieldAtPoint on a constructed
\* element ends the process.
C22_NoExitAfterConstruction ==
  elmOp.fn \in {"recordField", "interpolateFieldAtPoint"} => elmOp.exit = 0

(***************************************************************************)
(* The logger: Logger::~Logger of src/cxx/Utilities/Logging.cpp writes the *)
(* message it collected, by the process-wide GLOBAL_LOGGER_STATE.           *)
(***************************************************************************)

NRanks == 2
Ranks == 0 .. (NRanks - 1)

\* the levels of LogLevel by their rank in the enumeration; --verbose raises
\* the level, so VERBOSE is above the level messages are logged at by default
LogLevelValue == [ERROR |-> 0, INFO |-> 1, VERBOSE |-> 2]
LogLevels == DOMAIN LogLevelValue

LoggerStates ==
  [level : LogLevels, proc : {"ROOTONLY", "ALLPROCS"},
   log_where : {"STDOUT", "FILE"}, file_open : BOOLEAN,
   verbose : {FALSE}, parsed : {FALSE}]

Written(to, prefix, abort) == [to |-> to, prefix |-> prefix, abort |-> abort]

\* a variant that takes the error branch on rank 0 alone
LoggerDtorErrorOnRootOnly(state, rank, level) ==
  IF level = "ERROR" /\ rank = 0
  THEN Written("cerr", "ERROR: ", TRUE)
  ELSE Written("none", "", FALSE)

\* Logger::~Logger: what the destructor writes for a message of this level
\* on this rank, and whether it calls MPI_Abort on PETSC_COMM_WORLD
LoggerDtor(state, rank, level) ==
  IF level = "ERROR"
  THEN Written("cerr", "ERROR: ", TRUE)
  ELSE IF state.proc = "ROOTONLY" /\ rank = 0
  THEN IF LogLevelValue[state.level] >= LogLevelValue[level]
       THEN IF state.log_where = "STDOUT"
            THEN Written("cout", "", FALSE)
            ELSE IF state.file_open
                 THEN Written("file", "", FALSE)
                 ELSE Written("cout", "LOGFILE_FAILED, STDOUT INSTEAD: ", FALSE)
       ELSE Written("none", "", FALSE)
  ELSE IF state.proc = "ALLPROCS"
  THEN IF level = state.level
       THEN Written("cout", "proc(rank): ", FALSE)
       ELSE Written("none", "", FALSE)
  ELSE Written("none", "", FALSE)

NothingLogged == [fn |-> "none", abort |-> FALSE]

\* Options::setOptions, the --verbose option: when it is set the level becomes
\* VERBOSE, and otherwise the level is left as it was
SetVerbose ==
  /\ logOut.abort = FALSE
  /\ ~ logger.parsed
  /\ \E parameter_set \in BOOLEAN :
       logger' = [logger EXCEPT
                    !.level = IF parameter_set THEN "VERBOSE" ELSE @,
                    !.verbose = parameter_set,
                    !.parsed = TRUE]
  /\ UNCHANGED logOut
  /\ UNCHANGED logOthers

\* a Logger of some level goes out of scope on some rank; after MPI_Abort no
\* rank runs any more
DestroyLogger ==
  /\ logOut.abort = FALSE
  /\ \E rank \in Ranks, level \in LogLevels :
       LET w == LoggerDtor(logger, rank, level) IN
       logOut' = [fn |-> "Logger", state |-> logger, rank |-> rank,
                  level |-> level, to |-> w.to, prefix |-> w.prefix,
                  abort |-> w.abort]
  /\ UNCHANGED logger
  /\ UNCHANGED logOthers

LoggerInit ==
  /\ logger \in LoggerStates
  /\ logOut = NothingLogged
  /\ NewmarkIdle /\ DriverIdle /\ DirichletIdle /\ AttachIdle /\ OrderIdle
  /\ ElementIdle /\ OptionsIdle /\ SetupIdle /\ OptionsObjectIdle

LoggerNext == SetVerbose \/ DestroyLogger

SpecLogger == LoggerInit /\ [][LoggerNext]_vars

\* C23: a message of level ERROR is written to the error stream and aborts,
\* on every rank and under every logger state; a message of another level
\* never aborts; once a rank has aborted, no rank takes another step.
C23_ErrorAlwaysAborts ==
  /\ [](logOut.fn = "Logger" =>
          /\ (logOut.level = "ERROR") <=> logOut.abort
          /\ logOut.level = "ERROR" => logOut.to = "cerr")
  /\ [][logOut.abort = FALSE]_vars

C23_WitnessErrorOffRoot ==
  /\ logOut.fn = "Logger" /\ logOut.level = "ERROR" /\ logOut.rank = 1
  /\ logOut.state.proc = "ROOTONLY" /\ logOut.state.level = "INFO"
  /\ logOut.state.log_where = "FILE"
  /\ logOut.abort /\ logOut.to = "cerr"

\* the ranks that emit under a process selection
Emitters(proc) == IF proc = "ROOTONLY" THEN {0} ELSE Ranks

\* C24: a message of a level other than ERROR is emitted exactly when its
\* level is at or below the configured level and the rank is one the process
\* selection lets emit (rank 0, or every rank); a message that is emitted stays
\* emitted when the configured level is raised to VERBOSE; in root-only file
\* mode with the file closed an emitted message goes to standard output.
C24_EmittedIffWithinVerbosity ==
  (logOut.fn = "Logger" /\ logOut.level # "ERROR") =>
    /\ (logOut.to # "none") <=>
         /\ LogLevelValue[logOut.level] <= LogLevelValue[logOut.state.level]
         /\ logOut.rank \in Emitters(logOut.state.proc)
    /\ logOut.to # "none" =>
         LoggerDtor([logOut.state EXCEPT !.level = "VERBOSE"],
                    logOut.rank, logOut.level).to # "none"
    /\ ( /\ logOut.state.proc = "ROOTONLY" /\ logOut.rank = 0
         /\ logOut.state.log_where = "FILE" /\ ~ logOut.state.file_open
         /\ LogLevelValue[logOut.level] <= LogLevelValue[logOut.state.level] )
       => logOut.to = "cout"

(***************************************************************************)
(* Setting the elements up and stepping them: initialize_exact followed by *)
(* the element loop of solve_vs_exact, TimeDomain::initialize followed by  *)
(* the element loop of TimeDomain::solve, and the two loops of the         *)
(* coupling test.  A run is the list of its loops over the elements, a      *)
(* loop the list of the calls its body makes on the element, in the order  *)
(* of the source.                                                           *)
(***************************************************************************)

\* initialize_exact with the material parameters attached before the
\* vertex coordinates
initialize_exactMaterialFirst ==
  << "SetNum(element_number++)", "attachMaterialProperties",
     "attachVertexCoordinates", "setBoundaryConditions",
     "assembleElementMassMatrix", "prepareStiffness", "setupTest" >>

\* initialize_exact: the body of `for (auto &element : elements)`
initialize_exact ==
  << "SetNum(element_number++)", "attachVertexCoordinates",
     "attachMaterialProperties", "setBoundaryConditions",
     "assembleElementMassMatrix", "prepareStiffness", "setupTest" >>

\* solve_vs_exact: the body of the first loop over the elements
solve_vs_exact ==
  << "getFieldOnElement", "checkTest", "computeStiffnessTerm",
     "addFieldFromElement" >>

\* TimeDomain::initialize: the body of `for (auto &element: mElements)`
TimeDomain_initialize ==
  << "SetLocalElementNumber(element_number)", "attachVertexCoordinates",
     "interpolateMaterialProperties", "readOperators", "assembleMassMatrix",
     "scatterMassMatrix" >>

\* TimeDomain::solve: the body of the loop over the elements
TimeDomain_solve ==
  << "SetTime", "checkOutField", "computeStiffnessTerm", "computeSourceTerm",
     "computeSurfaceTerm", "checkInField" >>

\* the coupling test: its two loops over the elements
test_coupling ==
  << << "SetNum(element_number++)", "attachVertexCoordinates" >>,
     << "setBoundaryConditions", "computeSurfaceIntegral" >> >>

\* the runs: the loops of each, and the element types each is used with
Runs ==
  [ exact |-> [loops |-> <<initialize_exact, solve_vs_exact>>,
               kinds |-> {"Triangle", "Quad", "Hexahedra"}],
    TimeDomain |-> [loops |-> <<TimeDomain_initialize, TimeDomain_solve>>,
                    kinds |-> {"Quad"}],
    coupling |-> [loops |-> test_coupling, kinds |-> {"Quad"}] ]

\* a member nothing has been stored in
NotSet == [set |-> FALSE]

\* reference_element->clone(): an element nothing has been attached to
Clone(kind) ==
  [kind |-> kind, mElmNum |-> -1, mElmCtr |-> NotSet, mPar |-> NotSet,
   mass |-> NotSet, mElementStiffnessMatrix |-> NotSet, calls |-> <<>>]

\* the call made on element e while the counter of the loop is element_number.
\* attachVertexCoordinates reads the closure of cell mElmNum and stores its
\* centre; the material parameters are looked up by mElmCtr; the mass matrix
\* and the stiffness matrix are built from the parameters.
CallOnElement(call, e, element_number) ==
  LET f == [e EXCEPT !.calls = Append(@, call)] IN
  CASE call \in {"SetNum(element_number++)",
                 "SetLocalElementNumber(element_number)"} ->
         [f EXCEPT !.mElmNum = element_number]
    [] call = "attachVertexCoordinates" ->
         [f EXCEPT !.mElmCtr = IF e.mElmNum < 0 THEN NotSet
                               ELSE [cell |-> e.mElmNum]]
    [] call \in {"attachMaterialProperties", "interpolateMaterialProperties"} ->
         [f EXCEPT !.mPar = [at |-> e.mElmCtr]]
    [] call \in {"assembleElementMassMatrix", "assembleMassMatrix"} ->
         [f EXCEPT !.mass = [from |-> e.mPar]]
    [] call = "prepareStiffness" ->
         [f EXCEPT !.mElementStiffnessMatrix = [from |-> e.mPar]]
    [] OTHER -> f

\* the next statement of the body, on the element the loop is at
SetupCall ==
  /\ iniPc.loop <= Len(Runs[iniPc.run].loops)
  /\ iniPc.idx <= Len(iniElms)
  /\ LET body == Runs[iniPc.run].loops[iniPc.loop]
         call == body[iniPc.stmt]
     IN /\ iniElms' = [iniElms EXCEPT
                         ![iniPc.idx] = CallOnElement(call, @, iniPc.element_number)]
        /\ iniPc' = [iniPc EXCEPT
                       !.element_number =
                          IF call = "SetNum(element_number++)" THEN @ + 1 ELSE @,
                       !.stmt = IF iniPc.stmt = Len(body) THEN 1 ELSE @ + 1,
                       !.idx = IF iniPc.stmt = Len(body) THEN @ + 1 ELSE @]
  /\ UNCHANGED iniOthers

\* the loop over the elements has ended: on to the next loop of the run
SetupLoopDone ==
  /\ iniPc.loop <= Len(Runs[iniPc.run].loops)
  /\ iniPc.idx > Len(iniElms)
  /\ iniPc' = [iniPc EXCEPT !.loop = @ + 1, !.idx = 1, !.stmt = 1]
  /\ UNCHANGED iniElms
  /\ UNCHANGED iniOthers

\* for (i < mesh->NumberElementsLocal()) elements.push_back(clone());
\* int element_number = 0
SetupInit ==
  /\ \E run \in DOMAIN Runs :
       /\ iniPc = [run |-> run, loop |-> 1, idx |-> 1, stmt |-> 1,
                   element_number |-> 0]
       /\ \E n \in 1 .. NElem : \E kind \in Runs[run].kinds :
            iniElms = [i \in 1 .. n |-> Clone(kind)]
  /\ NewmarkIdle /\ DriverIdle /\ DirichletIdle /\ AttachIdle /\ OrderIdle
  /\ ElementIdle /\ OptionsIdle /\ LoggerIdle /\ OptionsObjectIdle

SetupNext == SetupCall \/ SetupLoopDone

SpecSetup == SetupInit /\ [][SetupNext]_vars

\* position of the first call of one of the names on the element, 0 when
\* none was made
FirstCall(e, names) ==
  IF \E k \in 1 .. Len(e.calls) : e.calls[k] \in names
  THEN CHOOSE k \in 1 .. Len(e.calls) :
         /\ e.calls[k] \in names
         /\ \A j \in 1 .. (k - 1) : e.calls[j] \notin names
  ELSE 0

\* a was called on e before the first call of b, if b was called at all
Precedes(e, a, b) ==
  FirstCall(e, b) > 0 => (0 < FirstCall(e, a) /\ FirstCall(e, a) < FirstCall(e, b))

VertexCalls == {"attachVertexCoordinates"}
MaterialCalls == {"attachMaterialProperties", "interpolateMaterialProperties"}
MassCalls == {"assembleElementMassMatrix", "assembleMassMatrix"}

\* C25: on every element the vertex coordinates are attached before the
\* material parameters, so that the parameters are looked up at a centre that
\* has been set; the parameters are attached before the mass matrix is
\* assembled and before prepareStiffness; and computeStiffnessTerm is called
\* on a triangle only after its prepareStiffness.
C25_SetupOrderPerElement ==
  \A i \in 1 .. Len(iniElms) :
    LET e == iniElms[i] IN
    /\ Precedes(e, VertexCalls, MaterialCalls)
    /\ e.mPar # NotSet => e.mPar.at # NotSet
    /\ Precedes(e, MaterialCalls, MassCalls)
    /\ Precedes(e, MaterialCalls, {"prepareStiffness"})
    /\ e.kind = "Triangle" =>
         /\ Precedes(e, {"prepareStiffness"}, {"computeStiffnessTerm"})
         /\ FirstCall(e, {"computeStiffnessTerm"}) > 0 =>
              e.mElementStiffnessMatrix # NotSet

C25_WitnessTriangleStepped ==
  /\ Len(iniElms) = NElem
  /\ iniElms[NElem].kind = "Triangle"
  /\ FirstCall(iniElms[NElem], {"computeStiffnessTerm"}) > 0
  /\ iniElms[NElem].mElementStiffnessMatrix = [from |-> [at |-> [cell |-> NElem - 1]]]

\* the loops that set the elements up have ended
SetupDone == iniPc.run \in {"exact", "TimeDomain"} /\ iniPc.loop > 1

\* C26: after the elements have been set up, element i of the list carries
\* the number i, so that the numbers are pairwise distinct and are
\* 0 .. NumberElementsLocal - 1.
C26_ElementNumbersDistinct ==
  SetupDone => \A i \in 1 .. Len(iniElms) : iniElms[i].mElmNum = i - 1

(***************************************************************************)
(* One Options object over several calls of setOptions on an option        *)
(* database that does not change (the tests call setOptions again on the   *)
(* object they hold).  The database gives the flags that the mandatory     *)
(* checks and the type checks of the sub-model above let through:          *)
(* --mesh-file, --model-file, --polynomial-order and --dimension are set,  *)
(* --static-problem is not, the movie has a file name and one field, the   *)
(* sources are of type ricker and their arrays and the receivers' arrays   *)
(* are complete.  Reals are exact.                                          *)
(***************************************************************************)
MaxSetOptions == 3
MaxNumSrc == 2

NotGiven == [set |-> FALSE, val |-> RZero]
Given(vals) == {[set |-> TRUE, val |-> v] : v \in vals}

OptionDatabases ==
  [ testing : BOOLEAN,
    duration : {NotGiven} \cup Given({RInt(-1), RZero, ROne, <<3, 2>>, <<7, 3>>}),
    timeStep : {NotGiven} \cup Given({RHalf, ROne, <<2, 3>>}),
    dirichlet : 0 .. 2,
    saveMovie : BOOLEAN,
    sources : {[from |-> "none", n |-> 0, comps |-> 1]}
                \cup [from : {"file", "inline"}, n : 1 .. MaxNumSrc, comps : 1 .. 2],
    numRec : 0 .. 1 ]

\* a default-constructed Options object
NewOptions ==
  [ calls |-> 0, error |-> "",
    mDuration |-> RZero, mTimeStep |-> RZero, mNumTimeSteps |-> 0,
    mHomogeneousDirichletBoundaries |-> <<>>, mMovieFields |-> <<>>,
    mNumSrc |-> 0, mSourceNames |-> <<>>, mSrcLocX |-> <<>>,
    mSrcNumComponents |-> <<>>, mSrcRickerAmplitude |-> <<>>,
    mSrcRickerCenterFreq |-> <<>>, mSrcRickerTimeDelay |-> <<>>,
    mSrcRickerDirection |-> <<>>, mNumRec |-> 0, mRecNames |-> <<>> ]

RDiv(x, y) == Rat(x[1] * y[2], x[2] * y[1])

\* rounding down in place of rounding up
CeilAsFloor(x) == x[1] \div x[2]

\* std::ceil
Ceil(x) == - ((- x[1]) \div x[2])

\* what the database or the source file holds for entries 1 .. n
Entries(tag, n) == [i \in 1 .. n |-> <<tag, i>>]

\* the direction pushed for a source of so many components
Direction(comps) == [k \in 1 .. comps |-> IF k = 1 THEN 1 ELSE 0]

\* lines 76-97: --duration and --time-step
SetTimeDependent(db, o) ==
  LET o1 == [o EXCEPT !.mDuration = IF db.duration.set THEN db.duration.val
                                     ELSE RInt(-1)]
  IN  IF ~ db.duration.set /\ ~ db.testing
      THEN [o1 EXCEPT !.error = "--duration not set"]
      ELSE IF db.timeStep.set
      THEN IF RPos(o1.mDuration)
           THEN LET n == Ceil(RDiv(o1.mDuration, db.timeStep.val))
                IN  [o1 EXCEPT !.mNumTimeSteps = n,
                               !.mTimeStep = RDiv(o1.mDuration, RInt(n))]
           ELSE [o1 EXCEPT !.mTimeStep = db.timeStep.val]
      ELSE [o1 EXCEPT !.mNumTimeSteps = 0,
                      !.error = IF db.testing THEN "" ELSE "--time-step not set"]

\* lines 104-108: every name given is pushed back
SetBoundaries(db, o) ==
  [o EXCEPT !.mHomogeneousDirichletBoundaries = @ \o Entries("bnd", db.dirichlet)]

\* lines 113-134: the movie field is emplaced back
SetMovies(db, o) ==
  IF db.saveMovie THEN [o EXCEPT !.mMovieFields = Append(@, "u")] ELSE o

\* lines 142-205: the sources of a file are pushed back, one by one
SetSourcesFromFile(db, o) ==
  LET n == db.sources.n
      o1 == [o EXCEPT !.mNumSrc = n]
  IN  IF FileTypeRejected("ricker") /\ ~ db.testing
      THEN [o1 EXCEPT !.error = "Source type not recognized"]
      ELSE [o1 EXCEPT
              !.mSourceNames = @ \o Entries("name", n),
              !.mSrcLocX = @ \o Entries("x", n),
              !.mSrcNumComponents = @ \o [i \in 1 .. n |-> db.sources.comps],
              !.mSrcRickerAmplitude = @ \o Entries("amp", n),
              !.mSrcRickerCenterFreq = @ \o Entries("freq", n),
              !.mSrcRickerTimeDelay = @ \o Entries("delay", n),
              !.mSrcRickerDirection =
                 @ \o [i \in 1 .. n |-> Direction(db.sources.comps)]]

\* lines 207-280: the arrays of the command line are resized to mNumSrc and
\* filled; the directions are pushed back
SetSourcesInline(db, o) ==
  LET n == db.sources.n IN
  IF n > 0
  THEN [o EXCEPT
          !.mNumSrc = n,
          !.mSrcLocX = Entries("x", n),
          !.mSrcNumComponents = [i \in 1 .. n |-> db.sources.comps],
          !.mSrcRickerAmplitude = Entries("amp", n),
          !.mSrcRickerCenterFreq = Entries("freq", n),
          !.mSrcRickerTimeDelay = Entries("delay", n),
          !.mSrcRickerDirection =
             @ \o [i \in 1 .. n |-> Direction(db.sources.comps)]]
  ELSE [o EXCEPT !.mNumSrc = 0]

\* lines 285-318: the receiver names are pushed back
SetReceivers(db, o) ==
  [o EXCEPT !.mNumRec = db.numRec,
            !.mRecNames = @ \o Entries("rec", db.numRec)]

\* Options::setOptions: the sections in the order of the source; a throw
\* ends the call and leaves what was stored before it
setOptions(db, o) ==
  LET t == SetTimeDependent(db, [o EXCEPT !.calls = @ + 1])
      m == SetMovies(db, SetBoundaries(db, t))
      s == IF db.sources.from = "file" THEN SetSourcesFromFile(db, m)
           ELSE SetSourcesInline(db, m)
  IN  IF t.error # "" THEN t
      ELSE IF s.error # "" THEN s
      ELSE SetReceivers(db, s)

\* options->setOptions() on the object, once more
CallSetOptions ==
  /\ optObj.calls < MaxSetOptions
  /\ optObj.error = ""
  /\ optObj' = setOptions(optDb, optObj)
  /\ UNCHANGED optDb
  /\ UNCHANGED objOthers

OptionsObjectInit ==
  /\ optDb \in OptionDatabases
  /\ optObj = NewOptions
  /\ NewmarkIdle /\ DriverIdle /\ DirichletIdle /\ AttachIdle /\ OrderIdle
  /\ ElementIdle /\ OptionsIdle /\ LoggerIdle /\ SetupIdle

OptionsObjectNext == CallSetOptions

SpecOptionsObject == OptionsObjectInit /\ [][OptionsObjectNext]_vars

\* the lists an Options object stores
StoredLists(o) ==
  << o.mHomogeneousDirichletBoundaries, o.mMovieFields, o.mSourceNames,
     o.mSrcLocX, o.mSrcNumComponents, o.mSrcRickerAmplitude,
     o.mSrcRickerCenterFreq, o.mSrcRickerTimeDelay, o.mSrcRickerDirection,
     o.mRecNames >>

\* the lists with one entry per source
PerSourceLists(o) ==
  << o.mSourceNames, o.mSrcLocX, o.mSrcNumComponents, o.mSrcRickerAmplitude,
     o.mSrcRickerCenterFreq, o.mSrcRickerTimeDelay, o.mSrcRickerDirection >>

Returned == optObj.calls >= 1 /\ optObj.error = ""

\* C27: after any number of calls of setOptions that returned, the stored
\* lists are those one call on a new object leaves, and every list with one
\* entry per source has mNumSrc entries.
C27_SetOptionsIdempotent ==
  Returned =>
    /\ StoredLists(optObj) = StoredLists(setOptions(optDb, NewOptions))
    /\ \A k \in 1 .. Len(PerSourceLists(optObj)) :
         Len(PerSourceLists(optObj)[k]) = optObj.mNumSrc

\* C28: after a call that returned, with --duration D > 0 and --time-step
\* h > 0 the number of steps N is the least integer with N * h >= D, the
\* stored step is D / N, it does not exceed h and N times it is D; with the
\* duration missing or not positive the stored step is h.
C28_StepsAreCeilOfDurationOverStep ==
  (Returned /\ optDb.timeStep.set) =>
    LET h == optDb.timeStep.val
        D == optDb.duration.val
        N == optObj.mNumTimeSteps
    IN  IF optDb.duration.set /\ RPos(D)
        THEN /\ ~ RLess(RMul(RInt(N), h), D)
             /\ RLess(RMul(RInt(N - 1), h), D)
             /\ optObj.mTimeStep = RDiv(D, RInt(N))
             /\ ~ RLess(h, optObj.mTimeStep)
             /\ RMul(RInt(N), optObj.mTimeStep) = D
        ELSE optObj.mTimeStep = h

C28_WitnessStepShortened ==
  /\ Returned /\ optObj.calls = 2
  /\ optDb.duration = [set |-> TRUE, val |-> <<7, 3>>]
  /\ optDb.timeStep = [set |-> TRUE, val |-> <<2, 3>>]
  /\ optObj.mNumTimeSteps = 4 /\ optObj.mTimeStep = <<7, 12>>

\* the values of a lookup, as a set
DofSet(dofs) == {dofs[k] : k \in DOMAIN dofs}

\* the place of an index in the tensor grid
GridR(p, n) == p % n
GridS(p, n) == (p \div n) % n
GridT(p, n) == p \div (n * n)

IsCorner(p, n) ==
  /\ p \in 0 .. (n * n * n - 1)
  /\ GridR(p, n) \in {0, n - 1} /\ GridS(p, n) \in {0, n - 1}
  /\ GridT(p, n) \in {0, n - 1}

\* the indices run along one axis of the grid from one end to the other,
\* the other two coordinates fixed
IsGridLine(dofs, n) ==
  /\ DOMAIN dofs = 0 .. (n - 1)
  /\ \A k \in DOMAIN dofs : dofs[k] \in 0 .. (n * n * n - 1)
  /\ \/ \A k \in DOMAIN dofs :
          /\ GridR(dofs[k], n) = k
          /\ GridS(dofs[k], n) = GridS(dofs[0], n)
          /\ GridT(dofs[k], n) = GridT(dofs[0], n)
     \/ \A k \in DOMAIN dofs :
          /\ GridS(dofs[k], n) = k
          /\ GridR(dofs[k], n) = GridR(dofs[0], n)
          /\ GridT(dofs[k], n) = GridT(dofs[0], n)
     \/ \A k \in DOMAIN dofs :
          /\ GridT(dofs[k], n) = k
          /\ GridR(dofs[k], n) = GridR(dofs[0], n)
          /\ GridS(dofs[k], n) = GridS(dofs[0], n)

VertexDofs(n) == {getDofsOnVtx(v, n).dofs[1] : v \in 0 .. 7}

\* C29: on a hexahedron of any order, a vertex id outside 0..7, an edge id
\* outside 0..11 and a face id outside 0..5 raise an error; a vertex id maps
\* to a corner of the grid that no other vertex id maps to; an edge id maps to
\* a grid line of N+1 indices within range whose two ends are vertex DoFs,
\* that no other edge id maps to, and whose indices all lie on exactly two of
\* the six faces.
C29_VertexAndEdgeDofs ==
  LET n == elm.mNumIntPtsR
      id == elmOp.input
  IN  /\ elmOp.fn = "getDofsOnVtx" =>
           /\ elmOp.thrown <=> id \notin 0 .. 7
           /\ ~ elmOp.thrown =>
                /\ IsCorner(elmOp.output[1], n)
                /\ \A v \in (0 .. 7) \ {id} :
                     getDofsOnVtx(v, n).dofs # elmOp.output
                /\ Cardinality(VertexDofs(n)) = 8
      /\ elmOp.fn = "getDofsOnEdge" =>
           /\ elmOp.thrown <=> id \notin 0 .. 11
           /\ ~ elmOp.thrown =>
                /\ IsGridLine(elmOp.output, n)
                /\ {elmOp.output[0], elmOp.output[n - 1]} \subseteq VertexDofs(n)
                /\ \A e \in (0 .. 11) \ {id} :
                     DofSet(getDofsOnEdge(e, n).dofs) # DofSet(elmOp.output)
                /\ Cardinality({f \in 0 .. 5 :
                     DofSet(elmOp.output) \subseteq DofSet(getDofsOnFace(f, n))}) = 2
      /\ elmOp.fn = "getDofsOnFace" =>
           (elmOp.thrown <=> id \notin 0 .. 5)

C29_WitnessTopRightEdge ==
  /\ elmOp.fn = "getDofsOnEdge" /\ elmOp.input = 5 /\ ~ elmOp.thrown
  /\ elm.mPlyOrd = 3
  /\ elmOp.output = [k \in 0 .. 3 |-> 51 + 4 * k]

\* the strain with 1 in one Voigt entry
UnitStrain(k) == [j \in 1 .. 6 |-> IF j = k THEN ROne ELSE RZero]

\* the constitutive matrix: entry (i, j) is the stress i of the unit strain j
Constitutive(c) == [i \in 1 .. 6 |-> [j \in 1 .. 6 |-> computeStress(c, UnitStrain(j))[i]]]

\* the Voigt entry of the stress tensor at (i, j): xx, yy, zz, yz, xz, xy
Voigt == << <<1, 6, 5>>, <<6, 2, 4>>, <<5, 4, 3>> >>

\* C30: in computeStiffnessTerm the entry j of the stress row handed on for
\* displacement component i is the Voigt entry (i, j) of the stress, so that
\* the tensor is symmetric at every point; and the matrix computeStress
\* applies is symmetric, with mc12, mc13, mc23 at both mirrored places and
\* zeros between normal and shear entries and between different shear entries.
C30_StressAndConstitutiveSymmetric ==
  elmOp.fn = "computeStiffnessTerm" =>
    LET C == Constitutive(elmOp.input.c) IN
    /\ \A p \in DOMAIN elmOp.stress : \A i, j \in 1 .. 3 :
         /\ elmOp.stress_col[i][p][j] = elmOp.stress[p][Voigt[i][j]]
         /\ elmOp.stress_col[i][p][j] = elmOp.stress_col[j][p][i]
    /\ \A i, j \in 1 .. 6 : C[i][j] = C[j][i]
    /\ C[1][2] = elmOp.input.c.mc12 /\ C[1][3] = elmOp.input.c.mc13
    /\ C[2][3] = elmOp.input.c.mc23
    /\ \A i \in 1 .. 6, j \in 4 .. 6 : i # j => C[i][j] = RZero

C30_WitnessShearStress ==
  /\ elmOp.fn = "computeStiffnessTerm"
  /\ elm.mPlyOrd = 2
  /\ elmOp.input.c.mc12 # elmOp.input.c.mc13
  /\ \E p \in DOMAIN elmOp.stress :
       /\ elmOp.stress_col[1][p][2] # RZero
       /\ elmOp.stress_col[2][p][3] # RZero
       /\ elmOp.stress_col[1][p][2] # elmOp.stress_col[1][p][3]

====
